---- MODULE Spec2Model ----
(***************************************************************************)
(* A model of BDL: the index store (bdl/index.py), the item (bdl/item.py)  *)
(* and the repository orchestrator (bdl/repository.py).                    *)
(*                                                                         *)
(* Python's None and SQL's NULL are the string None.  A table row is a     *)
(* record whose domain is the set of columns the table has.  The files     *)
(* under the repository root are a function from file name to the token    *)
(* that stands for the file's content.                                     *)
(***************************************************************************)
EXTENDS Integers, Sequences, FiniteSets, TLC

\* ------------------------------------------------------------------ bounds
\* The number of store / rename calls made on a loaded index.
MaxOps == 4
\* The number of calls made on an index that was migrated from a legacy store.
MaxLegacyOps == 1
\* The number of update calls made on a repository.
MaxUpdates == 1

\* ------------------------------------------------------------------ values
None == "<None>"

\* Template strings, as the sequence of their literal and {key} parts.
Key(k) == [kind |-> "key", text |-> k]
Lit(s) == [kind |-> "lit", text |-> s]
\* "{position}.{extension}"
DefaultTemplate == <<Key("position"), Lit("."), Key("extension")>>
\* "{filename}.{extension}"
FilenameTemplate == <<Key("filename"), Lit("."), Key("extension")>>
Templates == {DefaultTemplate, FilenameTemplate}

\* The item metadata dictionaries used as inputs.
EmptyMeta == [k \in {} |-> ""]
TagMeta == [k \in {"tag"} |-> "t"]
MetaPool == {EmptyMeta, TagMeta}

\* json.dumps of a metadata dictionary (at most one key).
json_dumps(d) ==
    IF DOMAIN d = {} THEN "{}"
    ELSE LET k == CHOOSE x \in DOMAIN d : TRUE
         IN "{\"" \o k \o "\": \"" \o d[k] \o "\"}"

\* json.loads of a metadata column, {} when it does not decode (NULL included).
json_loads(text) ==
    IF \E d \in MetaPool : json_dumps(d) = text
    THEN CHOOSE d \in MetaPool : json_dumps(d) = text
    ELSE EmptyMeta

\* The URLs used as inputs.
Urls == {"a", "http://h/x.e", "http://h/2.e"}

\* os.path.basename(urllib.parse.urlparse(url).path)
basename(url) ==
    CASE url = "a" -> <<"a">>
      [] url = "http://h/x.e" -> <<"x", "e">>
      [] url = "http://h/2.e" -> <<"2", "e">>
      [] OTHER -> <<url>>

RECURSIVE JoinParts(_)
JoinParts(parts) ==
    IF parts = <<>> THEN "" ELSE Head(parts) \o JoinParts(Tail(parts))

\* Truthiness of a Python str-or-None value.
Truthy(s) == s # None /\ s # ""

\* Item.__init__: filename and extension default to the URL's basename parts.
\* A None url makes urlparse return bytes and the constructor raise TypeError.
ItemRaises(url) == url = None

ItemFilename(url, filename) ==
    LET parts == basename(url)
        stem == JoinParts(SubSeq(parts, 1, Len(parts) - 1))
    IN IF Truthy(filename) THEN filename
       ELSE IF stem # "" THEN stem
       ELSE JoinParts(parts)

ItemExtension(url, extension) ==
    LET parts == basename(url)
    IN IF Truthy(extension) THEN extension
       ELSE IF Len(parts) > 1 /\ parts[Len(parts)] # "" THEN parts[Len(parts)]
       ELSE ""

\* Item.hashed: the digest of the in-memory content, empty when there is none.
ItemHashed(content, hashed) ==
    IF hashed # None THEN hashed
    ELSE IF content # None THEN "sha256:" \o content
    ELSE ""

Item(url, filename, extension, storename, content, hashed, metadata, tempfile) ==
    [url |-> url,
     filename |-> ItemFilename(url, filename),
     extension |-> ItemExtension(url, extension),
     storename |-> storename,
     content |-> content,
     hashed |-> ItemHashed(content, hashed),
     meta |-> metadata,
     tempfile |-> tempfile]

\* The items handed to store: downloaded to a temporary file, or held in memory.
ItemPool ==
    { Item("a", None, None, None, None, None, EmptyMeta, "tmp-a"),
      Item("a", "a2", "txt", None, None, None, TagMeta, "tmp-a2"),
      Item("http://h/x.e", None, None, None, None, None, EmptyMeta, "tmp-x"),
      Item("http://h/2.e", None, None, None, None, None, EmptyMeta, "tmp-2"),
      Item("http://h/2.e", None, None, None, "mem-2", None, EmptyMeta, None) }

\* ------------------------------------------------------------ index store
\* query_create_bdlitems, as pragma table_info reports each column:
\* name, type, notnull, dflt_value, pk.
Column(name, type, dflt, pk) ==
    [name |-> name, type |-> type, notnull |-> 0, dflt |-> dflt, pk |-> pk]

query_create_bdlitems ==
    << Column("position", "INTEGER", "0", 1),
       Column("url", "TEXT DEFAUTL", None, 0),
       Column("filename", "TEXT", "NULL", 0),
       Column("extension", "TEXT", "NULL", 0),
       Column("storename", "TEXT", "NULL", 0),
       Column("hashed", "TEXT", "NULL", 0),
       Column("metadata", "TEXT", "NULL", 0) >>

NCols == Len(query_create_bdlitems)

\* pragma table_info("bdlitems") on a store: no rows when the table is absent.
query_schema_bdlitems(store) ==
    IF store.table = "bdlitems" THEN store.schema ELSE <<>>

\* Index.validate: the names of the missing and of the invalid columns.
MissingColumns(schema) ==
    {query_create_bdlitems[i].name : i \in {j \in 1..NCols : j > Len(schema)}}

InvalidColumns(schema) ==
    {query_create_bdlitems[i].name :
        i \in {j \in 1..NCols : j <= Len(schema) /\ schema[j] # query_create_bdlitems[j]}}

validate(store) ==
    LET schema == query_schema_bdlitems(store)
    IN IF MissingColumns(schema) # {} \/ InvalidColumns(schema) # {}
       THEN "IndexDBSchemaError"
       ELSE "ok"

\* A store file: the table's name, its columns and its rows.
StoreFile(table, schema, rows) == [table |-> table, schema |-> schema, rows |-> rows]

\* Index.update._update_name: ALTER TABLE files RENAME TO bdlitems, which sqlite
\* refuses with OperationalError when there is no table named files.
update_name(store) ==
    IF store.table = "files"
    THEN [raised |-> "none", store |-> [store EXCEPT !.table = "bdlitems"]]
    ELSE [raised |-> "IndexDBError", store |-> store]

\* ALTER TABLE bdlitems ADD COLUMN <the i-th reference column>: every row gets
\* the column with its default, NULL.
AddColumn(store, i) ==
    LET col == query_create_bdlitems[i]
    IN [store EXCEPT !.schema = Append(@, col),
                     !.rows = {r @@ (col.name :> None) : r \in @}]

RECURSIVE AddColumns(_, _)
AddColumns(store, i) ==
    IF i > NCols THEN store ELSE AddColumns(AddColumn(store, i), i + 1)

\* Index.update._update_schema
update_schema(store) ==
    [raised |-> "none",
     store |-> AddColumns(store, Len(query_schema_bdlitems(store)) + 1)]

\* Index.update: each procedure in turn, committed; the first error ends it.
update(store) ==
    LET named == update_name(store)
    IN IF named.raised # "none" THEN named ELSE update_schema(named.store)

\* The item that stands for Python's None.
NoneItem ==
    [url |-> None, filename |-> None, extension |-> None, storename |-> None,
     content |-> None, hashed |-> None, meta |-> EmptyMeta, tempfile |-> None]

\* Index.get_queried builds an Item from a row:
\* Item(url, filename, extension, storename, None, hashed, metadata).
RowItem(r) ==
    Item(r.url, r.filename, r.extension, r.storename, None, r.hashed,
         json_loads(r.metadata), None)

MaxPosition(rows) == CHOOSE p \in {r.position : r \in rows} :
                        \A q \in {r.position : r \in rows} : q <= p

\* Index.get_last: (None, 0) for an empty table, else the row of highest position.
get_last(rows) ==
    IF rows = {} THEN [raised |-> "none", item |-> NoneItem, position |-> 0]
    ELSE LET r == CHOOSE x \in rows : x.position = MaxPosition(rows)
         IN IF ItemRaises(r.url)
            THEN [raised |-> "TypeError", item |-> NoneItem, position |-> 0]
            ELSE [raised |-> "none", item |-> RowItem(r), position |-> r.position]

\* Index.load, its last statement: self.position = last_position >= 0 and last_position or 0
SeedPositionZero(last_position) == 0
SeedPosition(last_position) ==
    IF last_position >= 0 /\ last_position # 0 THEN last_position ELSE 0

\* Index.load: validate, migrate once and validate again, then seed the counter.
load(store) ==
    LET first == validate(store)
        migrated == IF first = "ok" THEN [raised |-> "none", store |-> store]
                    ELSE update(store)
        second == IF first = "ok" THEN "ok" ELSE validate(migrated.store)
        last == get_last(migrated.store.rows)
    IN IF migrated.raised # "none"
       THEN [raised |-> migrated.raised, store |-> migrated.store, position |-> 0]
       ELSE IF second # "ok"
       THEN [raised |-> second, store |-> migrated.store, position |-> 0]
       ELSE IF last.raised # "none"
       THEN [raised |-> last.raised, store |-> migrated.store, position |-> 0]
       ELSE [raised |-> "none", store |-> migrated.store,
             position |-> SeedPosition(last.position)]

\* Index.has_item: SELECT position FROM bdlitems WHERE url == :url, first row.
has_item_never(rows, url) == [exists |-> FALSE, position |-> -1]
has_item(rows, url) ==
    LET found == {r \in rows : r.url = url}
    IN IF found # {}
       THEN [exists |-> TRUE, position |-> CHOOSE p \in {r.position : r \in found} :
                                             \A q \in {r.position : r \in found} : p <= q]
       ELSE [exists |-> FALSE, position |-> -1]

\* Index.build_storename: a defaultdict(str) of position, filename and extension,
\* updated with the item's metadata, then str.format_map.
Attribute_plain_dict(item, position, key) ==
    IF key \in DOMAIN item.meta THEN item.meta[key]
    ELSE CASE key = "position" -> ToString(position)
           [] key = "filename" -> item.filename
           [] key = "extension" -> item.extension
           [] OTHER -> "<KeyError>"
Attribute(item, position, key) ==
    IF key \in DOMAIN item.meta THEN item.meta[key]
    ELSE CASE key = "position" -> ToString(position)
           [] key = "filename" -> item.filename
           [] key = "extension" -> item.extension
           [] OTHER -> ""

RECURSIVE format_map(_, _, _)
format_map(template, item, position) ==
    IF template = <<>> THEN ""
    ELSE LET part == Head(template)
         IN (IF part.kind = "lit" THEN part.text
             ELSE Attribute(item, position, part.text))
            \o format_map(Tail(template), item, position)

build_storename(item, position, template) == format_map(template, item, position)

\* A file tree with one more file, written or moved into place.
WithFile(files, name, content) == (name :> content) @@ files
WithoutFile(files, name) == [n \in (DOMAIN files) \ {name} |-> files[n]]

\* shutil.move(src, dst) inside one directory: FileNotFoundError when src is absent.
move(files, src, dst) ==
    IF src \notin DOMAIN files THEN [raised |-> "FileNotFoundError", files |-> files]
    ELSE IF src = dst THEN [raised |-> "none", files |-> files]
    ELSE [raised |-> "none",
          files |-> WithFile(WithoutFile(files, src), dst, files[src])]

\* The row Index.store inserts: query_insert_item.
InsertedRow(item, position, storename) ==
    [position |-> position, url |-> item.url, filename |-> item.filename,
     extension |-> item.extension, storename |-> storename,
     hashed |-> item.hashed, metadata |-> json_dumps(item.meta)]

\* query_update_item: every row with the item's url gets the item's filename,
\* extension and metadata and the given storename.
UpdatedRows(rows, item, storename) ==
    { IF r.url = item.url
      THEN [r EXCEPT !.filename = item.filename, !.extension = item.extension,
                     !.storename = storename, !.metadata = json_dumps(item.meta)]
      ELSE r : r \in rows }

\* `if item.has_tempfile:` in Index.store tests the bound method Item.has_tempfile
\* itself (it is never called), and a method object is true.
has_tempfile(item) == TRUE

\* The path of a temporary file that is not there when store moves it.
MissingTempfile == "tmp-gone"

\* Index.store, its last part: the payload goes to root/storename; shutil.move
\* raises when the temporary file is missing.
WritePayload(files, item, fullpath) ==
    IF has_tempfile(item)
    THEN IF item.tempfile = None
         THEN [raised |-> "TypeError", files |-> files]
         ELSE IF item.tempfile = MissingTempfile
         THEN [raised |-> "FileNotFoundError", files |-> files]
         ELSE [raised |-> "none", files |-> WithFile(files, fullpath, item.tempfile)]
    ELSE [raised |-> "none",
          files |-> WithFile(files, fullpath,
                             IF item.content # None THEN item.content ELSE "")]

\* What a store call leaves: the rows, the counter, the files, the value returned
\* (None when it returns None or raises), the exception raised and the branch taken.
StoreResult(rows, position, files, ret, raised, branch) ==
    [rows |-> rows, position |-> position, files |-> files, ret |-> ret,
     raised |-> raised, branch |-> branch]

\* Index.store, the branch for a URL that is not indexed: the row is inserted at
\* position + 1 (sqlite raises IntegrityError when that primary key is taken) and
\* the counter advances, then the payload is written.
store_new(rows, position, template, files, item) ==
    LET storename == build_storename(item, position + 1, template)
        written == WritePayload(files, item, storename)
    IN IF \E r \in rows : r.position = position + 1
       THEN StoreResult(rows, position, files, None, "IntegrityError", "new")
       ELSE StoreResult(rows \cup {InsertedRow(item, position + 1, storename)},
                        position + 1, written.files,
                        IF written.raised = "none" THEN storename ELSE None,
                        written.raised, "new")

\* Index.store, the branch for a URL that is indexed, with update=True.
store_update_as_new(rows, position, template, files, item, item_position) ==
    LET storename == build_storename(item, position + 1, template)
        written == WritePayload(files, item, storename)
    IN StoreResult({ IF r.url = item.url
                     THEN [InsertedRow(item, position + 1, storename)
                              EXCEPT !.hashed = r.hashed]
                     ELSE r : r \in rows },
                   position + 1, written.files,
                   IF written.raised = "none" THEN storename ELSE None,
                   written.raised, "update")
store_update(rows, position, template, files, item, item_position) ==
    LET storename == build_storename(item, item_position, template)
        written == WritePayload(files, item, storename)
    IN StoreResult(UpdatedRows(rows, item, storename), position, written.files,
                   IF written.raised = "none" THEN storename ELSE None,
                   written.raised, "update")

\* Index.store, the branch for a URL that is indexed, with update=False.
store_ignored_overwrites(rows, position, template, files, item, item_position) ==
    store_update(rows, position, template, files, item, item_position)
store_ignored(rows, position, template, files, item, item_position) ==
    StoreResult(rows, position, files, None, "none", "ignored")

\* Index.store(item, root, update).  Its first statement logs item.url, which
\* raises AttributeError when item is None.
store(rows, position, template, files, item, upd) ==
    LET found == has_item(rows, item.url)
    IN IF item = NoneItem
       THEN StoreResult(rows, position, files, None, "AttributeError", "none")
       ELSE IF found.exists /\ ~upd
       THEN store_ignored(rows, position, template, files, item, found.position)
       ELSE IF found.exists /\ upd
       THEN store_update(rows, position, template, files, item, found.position)
       ELSE store_new(rows, position, template, files, item)

\* ORDER BY position
RECURSIVE OrderByPosition(_)
OrderByPosition(rows) ==
    IF rows = {} THEN <<>>
    ELSE LET first == CHOOSE r \in rows : \A x \in rows : r.position <= x.position
         IN <<first>> \o OrderByPosition(rows \ {first})

\* Index.get_all / get_queried(query_all_items): the rows fetched at once, or the
\* single placeholder (None, 0) when the table is empty.
get_all(rows) ==
    IF rows = {} THEN <<[none |-> TRUE, row |-> [position |-> 0]]>>
    ELSE [i \in 1..Cardinality(rows) |->
             [none |-> FALSE, row |-> OrderByPosition(rows)[i]]]

\* One turn of the loop of Index.rename on a fetched row: the row is updated with
\* the new storename, then the file is moved from the old storename to the new
\* one; a missing file is logged and the loop goes on.
RenameEntry(url, src, dst, found) ==
    [url |-> url, src |-> src, dst |-> dst, found |-> found]

rename_step_fatal(acc, fetched, template) ==
    IF fetched.none
    THEN [acc EXCEPT !.raised = "AttributeError"]
    ELSE IF ItemRaises(fetched.row.url)
    THEN [acc EXCEPT !.raised = "TypeError"]
    ELSE LET item == RowItem(fetched.row)
             storename == build_storename(item, fetched.row.position, template)
             rows == UpdatedRows(acc.rows, item, storename)
             moved == move(acc.files, item.storename, storename)
         IN IF item.storename = None
            THEN [acc EXCEPT !.rows = rows, !.raised = "TypeError"]
            ELSE IF moved.raised # "none"
            THEN [acc EXCEPT !.rows = rows, !.raised = moved.raised]
            ELSE [rows |-> rows,
                  files |-> moved.files,
                  log |-> Append(acc.log,
                                 RenameEntry(item.url, item.storename, storename, TRUE)),
                  raised |-> "none"]
rename_step(acc, fetched, template) ==
    IF fetched.none
    THEN [acc EXCEPT !.raised = "AttributeError"]
    ELSE IF ItemRaises(fetched.row.url)
    THEN [acc EXCEPT !.raised = "TypeError"]
    ELSE LET item == RowItem(fetched.row)
             storename == build_storename(item, fetched.row.position, template)
             rows == UpdatedRows(acc.rows, item, storename)
             moved == move(acc.files, item.storename, storename)
         IN IF item.storename = None
            THEN [acc EXCEPT !.rows = rows, !.raised = "TypeError"]
            ELSE [rows |-> rows,
                  files |-> moved.files,
                  log |-> Append(acc.log,
                                 RenameEntry(item.url, item.storename, storename,
                                             moved.raised = "none")),
                  raised |-> "none"]

RECURSIVE rename_loop(_, _, _)
rename_loop(acc, fetched, template) ==
    IF fetched = <<>> \/ acc.raised # "none" THEN acc
    ELSE rename_loop(rename_step(acc, Head(fetched), template), Tail(fetched), template)

\* Index.rename(root, template): template defaults to the index's own template.
rename(rows, files, template, own_template) ==
    rename_loop([rows |-> rows, files |-> files, log |-> <<>>, raised |-> "none"],
                get_all(rows),
                IF template # <<>> THEN template ELSE own_template)

\* ------------------------------------------------------- progress tracker
\* The URLs and percentages the tracker is called with, and a timestamp.
ProgressUrls == {"a", "b"}
Percentages == {0, 50, 100}
Curtime == 1

\* Progress(count, name): reset() empties the lists, then count and name are set.
Progress(count, name) ==
    [entries |-> <<>>, currents |-> <<>>, finished |-> <<>>, failed |-> <<>>,
     count |-> count, name |-> name]

\* Progress.reset
progress_reset(p) == Progress(0, None)

\* Progress.add: curpos is computed from the length before the append.
add(p, url, percentage) ==
    LET curpos == IF Len(p.entries) > 0 THEN Len(p.entries) - 1 ELSE 0
    IN [p EXCEPT !.entries = Append(@, [url |-> url,
                                        begin |-> IF percentage > 0 THEN Curtime ELSE -1,
                                        end |-> IF percentage < 100 THEN Curtime ELSE -1,
                                        percentage |-> percentage]),
                 !.currents = Append(@, curpos)]

\* list.remove(value) under `except ValueError: pass`: the first occurrence goes,
\* a list without the value stays as it is.
RECURSIVE list_remove(_, _)
list_remove(seq, value) ==
    IF seq = <<>> THEN <<>>
    ELSE IF Head(seq) = value THEN Tail(seq)
    ELSE <<Head(seq)>> \o list_remove(Tail(seq), value)

\* One turn of the loop of Progress.__mark, pos already incremented.  The
\* container is the name of the list, None for update(); kwargs are the entry
\* values to set.
mark_entry(p, pos, url, new_container, kwargs) ==
    IF p.entries[pos].url # url THEN p
    ELSE LET q == IF new_container # None
                  THEN [p EXCEPT !.currents = list_remove(@, pos),
                                 ![new_container] = Append(@, pos)]
                  ELSE p
         IN [q EXCEPT !.entries[pos] = kwargs @@ @]

RECURSIVE mark_from(_, _, _, _, _)
mark_from(p, pos, url, new_container, kwargs) ==
    IF pos > Len(p.entries) THEN p
    ELSE mark_from(mark_entry(p, pos, url, new_container, kwargs), pos + 1,
                   url, new_container, kwargs)

\* Progress.__mark
mark(p, url, new_container, kwargs) == mark_from(p, 1, url, new_container, kwargs)

\* Progress.update, Progress.mark_finished, Progress.mark_failed
progress_update(p, url, percentage) == mark(p, url, None, [percentage |-> percentage])
mark_finished(p, url) == mark(p, url, "finished", <<>>)
mark_failed(p, url) == mark(p, url, "failed", <<>>)

\* The places of the entries of a URL.
EntriesOf(p, url) == {i \in 1..Len(p.entries) : p.entries[i].url = url}

\* Progress.total.  The percentage is a float in the code; with the counts
\* used here the division is exact.
total(p) ==
    [count |-> p.count, finished |-> Len(p.finished), failed |-> Len(p.failed),
     percentage |-> IF p.count > 0 THEN (Len(p.entries) * 100) \div p.count ELSE 0]

\* Progress.__get_container: the list indexes entries from zero, so the stored
\* value v reads the entry at place v + 1 of the sequence, and a value past the
\* end raises IndexError.
get_container(p, container) ==
    IF \E i \in 1..Len(container) : container[i] >= Len(p.entries)
    THEN [raised |-> "IndexError", items |-> <<>>]
    ELSE [raised |-> "none",
          items |-> [i \in 1..Len(container) |-> p.entries[container[i] + 1]]]

\* The properties currents, finished and failed.
currents(p) == get_container(p, p.currents)
finished(p) == get_container(p, p.finished)
failed(p) == get_container(p, p.failed)

\* No call of the worker is in progress.
NoWork == [op |-> "none", url |-> None, percentage |-> 0, value |-> 0]

\* The whole call of the worker on a tracker.
apply(p, call) ==
    CASE call.op = "add" -> add(p, call.url, call.percentage)
      [] call.op = "update" -> progress_update(p, call.url, call.percentage)
      [] call.op = "mark_finished" -> mark_finished(p, call.url)
      [] call.op = "mark_failed" -> mark_failed(p, call.url)
      [] call.op = "reset" -> progress_reset(p)
      [] call.op = "count" -> [p EXCEPT !.count = call.value]
      [] OTHER -> p

\* The assignments of Progress.reset, in the order of the code.
ResetOrder == <<"entries", "currents", "finished", "failed", "count", "name">>

\* How many statements the call runs inside its critical section on a tracker
\* found in state pre: the two appends of add, the six assignments of reset, one
\* turn of the loop of __mark per entry, the assignment of the count setter.
call_steps(pre, call) ==
    CASE call.op = "add" -> 2
      [] call.op = "reset" -> Len(ResetOrder)
      [] call.op = "count" -> 1
      [] call.op \in {"update", "mark_finished", "mark_failed"} -> Len(pre.entries)
      [] OTHER -> 0

\* The k-th of these statements, on the tracker p as the earlier ones left it.
call_step(p, pre, call, k) ==
    CASE call.op = "add" ->
           IF k = 1 THEN [p EXCEPT !.entries = add(pre, call.url, call.percentage).entries]
           ELSE [p EXCEPT !.currents = add(pre, call.url, call.percentage).currents]
      [] call.op = "reset" ->
           [p EXCEPT ![ResetOrder[k]] = progress_reset(pre)[ResetOrder[k]]]
      [] call.op = "count" -> [p EXCEPT !.count = call.value]
      [] call.op = "update" ->
           mark_entry(p, k, call.url, None, [percentage |-> call.percentage])
      [] call.op = "mark_finished" -> mark_entry(p, k, call.url, "finished", <<>>)
      [] call.op = "mark_failed" -> mark_entry(p, k, call.url, "failed", <<>>)
      [] OTHER -> p

\* `with self.__lock:` enters when no thread holds the lock.
acquire_unlocked(lock) == TRUE
acquire(lock) == lock = "free"

\* No snapshot was read yet.
NoSnapshot ==
    [taken |-> FALSE, value |-> total(Progress(0, None)),
     before |-> total(Progress(0, None)), after |-> total(Progress(0, None))]

\* A list of the tracker as a caller holds it before it enters __mark or
\* __get_container: its name and how many resets had replaced the lists when
\* the attribute was read.
NoReference == [list |-> None, url |-> None, resets |-> 0]

\* The lock is free, the worker is between calls, the poller is not reading.
NoPoll ==
    [lock |-> "free", call |-> NoWork, pc |-> 0, pre |-> Progress(0, None),
     polling |-> FALSE, snapshot |-> NoSnapshot,
     caller |-> "start", worker |-> "unstarted", muts |-> 0, seen |-> 0,
     resets |-> 0, discarded |-> Progress(0, None),
     marking |-> NoReference, reading |-> NoReference,
     stale_mark |-> FALSE, stale_read |-> FALSE, read |-> None]

\* -------------------------------------------------------- engine registry
\* A URL is the sequence of its parts: "http://h/x" is <<"http:", "h", "x">>, and
\* "h/x", which has no scheme and no "//", is <<"h", "x">>.
Schemes == {"http:", "https:"}
SiteUrls ==
    { <<"http:", "h", "x">>, <<"http:", "h", "x", "y">>, <<"http:", "h", "z">>,
      <<"http:", "h">>, <<"https:", "h", "x">>, <<"http:", "k", "x">>,
      <<"http:", "g", "b">>, <<"http:", "g", "c">>, <<"h", "x">>, <<"http:">>, <<>> }

\* urlparse(url).netloc: the part after "scheme://", empty without one.
urlparse_netloc(url) ==
    IF Len(url) >= 2 /\ url[1] \in Schemes THEN url[2] ELSE ""

\* A pattern of sites.json: literal parts, closed by "$" or open at the end.
Pattern(parts, closed) == [parts |-> parts, closed |-> closed]

\* re.match(url_regex, url): the pattern matches at the start of the URL.
re_match(url_regex, url) ==
    /\ Len(url_regex.parts) <= Len(url)
    /\ SubSeq(url, 1, Len(url_regex.parts)) = url_regex.parts
    /\ url_regex.closed => Len(url) = Len(url_regex.parts)

NetlocRegex(url_regex, engine_name) ==
    [url_regex |-> url_regex, engine_name |-> engine_name]

\* A dict is the sequence of its items in insertion order.
HasKey(dict, key) == \E i \in 1..Len(dict) : dict[i].key = key
GetItem(dict, key) == (CHOOSE i \in 1..Len(dict) : dict[i].key = key)
SetItem(dict, key, value) ==
    IF HasKey(dict, key)
    THEN [dict EXCEPT ![GetItem(dict, key)].value = value]
    ELSE Append(dict, [key |-> key, value |-> value])
Lookup(dict, key) == dict[GetItem(dict, key)].value

\* The engine packages an installation may hold: name, module, sites.json.
PackageOne ==
    [name |-> "one", module |-> "eng1",
     sites |-> << [key |-> "h",
                   value |-> << Pattern(<<"http:", "h", "x">>, FALSE) >>] >>]
PackageTwo ==
    [name |-> "two", module |-> "eng2",
     sites |-> << [key |-> "h",
                   value |-> << Pattern(<<"http:", "h">>, FALSE),
                                Pattern(<<"http:", "h", "x", "y">>, TRUE) >>],
                  [key |-> "g",
                   value |-> << Pattern(<<"http:", "g">>, FALSE) >>] >>]
PackageBroken ==
    [name |-> "broken", module |-> "nosuchmodule",
     sites |-> << [key |-> "g",
                   value |-> << Pattern(<<"http:", "g", "b">>, FALSE) >>] >>]
Installations ==
    { <<>>, <<PackageOne>>, <<PackageOne, PackageTwo>>, <<PackageTwo, PackageOne>>,
      <<PackageBroken, PackageTwo>> }

\* by_name = {} and by_netloc = {} as the module is imported.
NoRegistry == [by_name |-> <<>>, by_netloc |-> <<>>]

\* The inner loop of sub_preload: the patterns of one netloc are appended to
\* its rules.
RECURSIVE append_rules(_, _, _, _)
append_rules(by_netloc, netloc, url_regexes, engine_name) ==
    IF url_regexes = <<>> THEN by_netloc
    ELSE append_rules(
           SetItem(by_netloc, netloc,
                   Append(Lookup(by_netloc, netloc),
                          NetlocRegex(Head(url_regexes), engine_name))),
           netloc, Tail(url_regexes), engine_name)

\* `for netloc, url_regexes in config.items()`
RECURSIVE register_sites(_, _, _)
register_sites(by_netloc, config, engine_name) ==
    IF config = <<>> THEN by_netloc
    ELSE LET netloc == Head(config).key
             known == IF HasKey(by_netloc, netloc) THEN by_netloc
                      ELSE SetItem(by_netloc, netloc, <<>>)
         IN register_sites(
              append_rules(known, netloc, Head(config).value, engine_name),
              Tail(config), engine_name)

\* sub_preload
RECURSIVE sub_preload(_, _)
sub_preload(reg, found) ==
    IF found = <<>> THEN reg
    ELSE sub_preload(
           [by_name |-> SetItem(reg.by_name, Head(found).name, Head(found).module),
            by_netloc |-> register_sites(reg.by_netloc, Head(found).sites,
                                         Head(found).name)],
           Tail(found))

\* preload: both mappings are cleared, then rebuilt from the entry points.
preload(reg, found) == sub_preload(NoRegistry, found)

\* The capabilities of the Engine base class.
Capabilities ==
    {"get_repo_name", "is_reachable", "pre_connect", "pre_update", "count_all",
     "count_new", "update_all", "update_new", "update_selection"}

\* What may be handed to validate: a module whose Engine is a class with some
\* capabilities, a module whose Engine is not a class, a module without Engine,
\* a class, a number.
Adapter(name, kind, engine, methods) ==
    [name |-> name, kind |-> kind, Engine |-> engine, methods |-> methods]
Adapters ==
    { Adapter("eng1", "module", "class", Capabilities),
      Adapter("eng2", "module", "class", {}),
      Adapter("eng5", "module", "class", Capabilities \ {"count_all"}),
      Adapter("eng4", "module", "value", {}),
      Adapter("eng3", "module", "undefined", {}),
      Adapter("Eng", "class", "undefined", {}),
      Adapter(None, "int", "undefined", {}) }

\* The modules importlib.import_module finds.
Importable == {"eng1", "eng2"}

\* The outcome of a registry call: the module returned, the error raised.
Outcome(ret, raised) == [ret |-> ret, raised |-> raised]

\* load_by_name
load_by_name(reg, name) ==
    IF ~HasKey(reg.by_name, name) THEN Outcome(None, "EngineLoadError")
    ELSE IF Lookup(reg.by_name, name) \notin Importable
    THEN Outcome(None, "EngineLoadError")
    ELSE Outcome(Lookup(reg.by_name, name), "none")

\* `for url_regex, engine_name in by_netloc[netloc]: if re.match(...)`: the
\* place of the rule the loop returns on, 0 when the loop ends.
last_match(rules, url) ==
    IF \E i \in 1..Len(rules) : re_match(rules[i].url_regex, url)
    THEN CHOOSE i \in 1..Len(rules) :
           /\ re_match(rules[i].url_regex, url)
           /\ \A j \in (i + 1)..Len(rules) : ~re_match(rules[j].url_regex, url)
    ELSE 0
first_match(rules, url) ==
    IF \E i \in 1..Len(rules) : re_match(rules[i].url_regex, url)
    THEN CHOOSE i \in 1..Len(rules) :
           /\ re_match(rules[i].url_regex, url)
           /\ \A j \in 1..(i - 1) : ~re_match(rules[j].url_regex, url)
    ELSE 0

\* `if len(netloc) <= 0: raise InvalidURLError`
no_netloc_never(netloc) == FALSE
no_netloc(netloc) == netloc = ""

\* load_by_url: KeyError from by_netloc[netloc] becomes EngineLoadError.
load_by_url(reg, url) ==
    LET netloc == urlparse_netloc(url)
    IN IF no_netloc(netloc) THEN Outcome(None, "InvalidURLError")
       ELSE IF ~HasKey(reg.by_netloc, netloc) THEN Outcome(None, "EngineLoadError")
       ELSE LET rules == Lookup(reg.by_netloc, netloc)
                hit == first_match(rules, url)
            IN IF hit = 0 THEN Outcome(None, "EngineLoadError")
               ELSE load_by_name(reg, rules[hit].engine_name)

\* validate: the module type, then the Engine attribute; the error message
\* reads engine.__name__, which a value that is no module may lack.
validate_engine(engine) ==
    IF engine.kind # "module"
    THEN IF engine.name = None THEN "AttributeError" ELSE "EngineStructureError"
    ELSE IF engine.Engine = "undefined" THEN "EngineStructureError"
    ELSE IF engine.Engine # "class" THEN "EngineStructureError"
    ELSE "none"

\* No call was made on the registry.
NoResolve ==
    [op |-> "none", url |-> <<>>, name |-> None, engine |-> Adapter(None, "int", "undefined", {}),
     ret |-> None, raised |-> "none", before |-> NoRegistry]

\* ------------------------------------------------------------------ state
VARIABLES
    disk,       \* the index file: table name, columns, committed rows
    idx,        \* the Index object: "unloaded", "loaded" or "failed" (load raised)
    db,         \* the rows seen through the open connection
    position,   \* Index.position
    template,   \* Index.__template
    files,      \* the files under the root directory
    budget,     \* how many more calls this run makes
    last,       \* the last call: its arguments, outcome and the state before it
    firsts,     \* the URLs stored for the first time since load, in call order
    prevMax,    \* the highest position the store held when it was loaded
    repo,       \* the repository: its directory, its handle and the running update
    progress,   \* the handle's Progress object
    inflight,   \* the places, in add order, of the entries added and not yet marked
    poll,       \* the tracker's lock, the worker's call in progress, the poller's read
    registry,   \* bdl.engine.by_name and bdl.engine.by_netloc
    resolved    \* the last call on the engine registry and its outcome

vars == <<disk, idx, db, position, template, files, budget, last, firsts, prevMax,
          repo, progress, inflight, poll,
          registry, resolved>>

\* The variables of the parts that the index and the repository calls leave alone.
others == <<poll, registry, resolved>>

NoCall ==
    [op |-> "none", item |-> NoneItem, upd |-> FALSE, template |-> <<>>,
     ret |-> None, raised |-> "none", branch |-> "none", log |-> <<>>,
     rows |-> {}, position |-> 0, files |-> <<>>]

\* A row as Index.store leaves it for an item first stored at a position.
StoredRow(item, pos, tpl) == InsertedRow(item, pos, build_storename(item, pos, tpl))

NoConfig == [present |-> FALSE, template |-> <<>>]

\* What a call finds on disk: the repository directory, config.json, the
\* committed rows of the index and the files.
Snapshot(exists, config, rows, tree) ==
    [exists |-> exists, config |-> config, rows |-> rows, files |-> tree]

NoEngine == [items |-> <<>>, error |-> "none", reports |-> FALSE]

\* No stop was signalled during the running update.
NoStop ==
    [set |-> FALSE, more |-> FALSE, rows |-> {}, position |-> 0, files |-> <<>>,
     pc |-> "none", item |-> NoneItem, left |-> 0]

\* The state of a Repository handle right after __init__, on a directory that
\* holds a repository (config.json and index.sqlite under .bdl) or does not.
\* A null template is the empty sequence.  The engine is the sequence of items
\* its updater yields and the error it raises after them, if any.
NewRepository(exists, config, tpl, engine) ==
    [exists |-> exists, config |-> config, template |-> tpl, engine |-> engine,
     stop |-> FALSE, pc |-> "idle", op |-> "none", result |-> "none",
     mode |-> "none", fault |-> "none",
     pending |-> "none", reachable |-> FALSE, count |-> 0, rest |-> <<>>,
     item |-> NoneItem,
     connected |-> FALSE, stopRaised |-> FALSE, base |-> {}, stored |-> <<>>,
     drawn |-> <<>>, commit |-> "none", renamed |-> <<>>,
     hooks |-> <<>>, before |-> Snapshot(FALSE, NoConfig, {}, <<>>),
     stopAt |-> NoStop]

ItemA == Item("a", None, None, None, None, None, EmptyMeta, "tmp-a")
ItemX == Item("http://h/x.e", None, None, None, None, None, EmptyMeta, "tmp-x")

\* Stores written by earlier runs of this program, with the files of the root
\* directory: a fresh one, and ones holding items stored under the default template.
CurrentStores ==
    { [store |-> StoreFile("bdlitems", query_create_bdlitems, {}),
       files |-> <<>>],
      [store |-> StoreFile("bdlitems", query_create_bdlitems,
                           {StoredRow(ItemA, 1, DefaultTemplate)}),
       files |-> ("1." :> "tmp-a")],
      [store |-> StoreFile("bdlitems", query_create_bdlitems,
                           {StoredRow(ItemA, 1, DefaultTemplate),
                            StoredRow(ItemX, 2, DefaultTemplate)}),
       files |-> ("1." :> "tmp-a")] }

InitWith(stores, calls) ==
    /\ \E s \in stores : disk = s.store /\ files = s.files
    /\ idx = "unloaded"
    /\ db = {}
    /\ position = 0
    /\ template = DefaultTemplate
    /\ budget = calls
    /\ last = NoCall
    /\ firsts = <<>>
    /\ prevMax = 0
    /\ repo = NewRepository(TRUE, NoConfig, <<>>, NoEngine)
    /\ progress = Progress(0, None)
    /\ inflight = {}
    /\ poll = NoPoll
    /\ registry = NoRegistry
    /\ resolved = NoResolve

Init == InitWith(CurrentStores, MaxOps)

\* A row cut down to the first k reference columns.
LeadingColumns(row, k) ==
    [c \in {query_create_bdlitems[i].name : i \in 1..k} |-> row[c]]

\* Stores written by an older version: a table named files or bdlitems that has
\* the first k reference columns (position and url at least), declared as they
\* are today, and rows stored under the default template.
LegacyStores ==
    { [store |-> StoreFile(table, SubSeq(query_create_bdlitems, 1, k),
                           {LeadingColumns(r, k) : r \in s.store.rows}),
       files |-> s.files] :
         table \in {"files", "bdlitems"}, k \in 2..NCols, s \in CurrentStores }

InitLegacy == InitWith(LegacyStores, MaxLegacyOps)

\* Index.load()
Load ==
    /\ idx = "unloaded"
    /\ LET r == load(disk)
       IN /\ disk' = r.store
          /\ idx' = IF r.raised = "none" THEN "loaded" ELSE "failed"
          /\ db' = IF r.raised = "none" THEN r.store.rows ELSE {}
          /\ position' = r.position
          /\ last' = [NoCall EXCEPT !.op = "load", !.raised = r.raised,
                                    !.rows = disk.rows]
          /\ prevMax' = IF r.store.rows = {} \/ r.raised # "none" THEN 0
                        ELSE MaxPosition(r.store.rows)
    /\ UNCHANGED <<progress, inflight>>
    /\ UNCHANGED others
    /\ UNCHANGED <<template, files, budget, firsts, repo>>

\* Index.store(item, root, update)
Store(item, upd) ==
    /\ idx = "loaded"
    /\ budget > 0
    /\ LET r == store(db, position, template, files, item, upd)
       IN /\ db' = r.rows
          /\ position' = r.position
          /\ files' = r.files
          /\ last' = [NoCall EXCEPT !.op = "store", !.item = item, !.upd = upd,
                                    !.ret = r.ret, !.raised = r.raised,
                                    !.branch = r.branch, !.rows = db,
                                    !.position = position, !.files = files]
          /\ firsts' = IF r.branch = "new" THEN Append(firsts, item.url) ELSE firsts
    /\ budget' = budget - 1
    /\ UNCHANGED <<progress, inflight>>
    /\ UNCHANGED others
    /\ UNCHANGED <<disk, idx, template, prevMax, repo>>

\* Index.rename(root, template)
Rename(tpl) ==
    /\ idx = "loaded"
    /\ budget > 0
    /\ LET r == rename(db, files, tpl, template)
       IN /\ db' = r.rows
          /\ files' = r.files
          /\ last' = [NoCall EXCEPT !.op = "rename", !.template = tpl,
                                    !.raised = r.raised, !.log = r.log,
                                    !.rows = db, !.position = position,
                                    !.files = files]
    /\ budget' = budget - 1
    /\ UNCHANGED <<progress, inflight>>
    /\ UNCHANGED others
    /\ UNCHANGED <<disk, idx, position, template, firsts, prevMax, repo>>

Next ==
    \/ Load
    \/ \E item \in ItemPool \cup {NoneItem}, upd \in BOOLEAN : Store(item, upd)
    \/ \E tpl \in Templates \cup {<<>>} : Rename(tpl)

Spec == Init /\ [][Next]_vars

\* The same calls, on a store left by an older version.
SpecLegacy == InitLegacy /\ [][Next]_vars

\* ------------------------------------------------------------ repository
ItemB == Item("b", None, None, None, None, None, EmptyMeta, "tmp-b")
ItemBInMemory == Item("b", None, None, None, "mem-b", None, EmptyMeta, None)

\* Engines: the updater yields a then b (downloaded to temporary files, or b held
\* in memory, or with a None element between them) and then ends or raises.
Engines ==
    { [items |-> items, error |-> error, reports |-> FALSE] :
        items \in {<<ItemA, ItemB>>, <<ItemA, ItemBInMemory>>,
                   <<ItemA, NoneItem, ItemB>>},
        error \in {"none", "EngineError"} }

\* What the engine's counter reports.
Counts == {-1, 0, 2}

\* No index.sqlite yet.
AbsentStore == StoreFile("<absent>", <<>>, {})

\* The repositories earlier runs left: the stores above, and one whose only
\* item has lost its file.
RepoStores ==
    CurrentStores \cup
    { [store |-> StoreFile("bdlitems", query_create_bdlitems,
                           {StoredRow(ItemA, 1, DefaultTemplate)}),
       files |-> <<>>] }

\* A directory without a repository, or a repository that earlier runs connected
\* (config.json written with a null template) and filled.
InitRepoWith(engines, calls) ==
    /\ \E engine \in engines :
         \/ /\ disk = AbsentStore
            /\ files = <<>>
            /\ repo = NewRepository(FALSE, NoConfig, <<>>, engine)
         \/ \E s \in RepoStores :
              /\ disk = s.store
              /\ files = s.files
              /\ repo = NewRepository(TRUE, [present |-> TRUE, template |-> <<>>],
                                      <<>>, engine)
    /\ idx = "unloaded"
    /\ db = {}
    /\ position = 0
    /\ template = DefaultTemplate
    /\ budget = calls
    /\ last = NoCall
    /\ firsts = <<>>
    /\ prevMax = 0
    /\ progress = Progress(0, None)
    /\ inflight = {}
    /\ poll = NoPoll
    /\ registry = NoRegistry
    /\ resolved = NoResolve

InitRepo == InitRepoWith(Engines, MaxUpdates)

\* Repository.__save_config: config.json gets the handle's template.
save_config_stale(handle) == handle.config
save_config(handle) == [present |-> TRUE, template |-> handle.template]

\* Index.commit: `if self.db is not None: self.db.commit()`.  The connection
\* Index.create closed is not None, and committing on it raises.
commit_nothing(file, state, rows) == [raised |-> "none", store |-> file]
commit(file, state, rows) ==
    IF state = "closed" THEN [raised |-> "ProgrammingError", store |-> file]
    ELSE IF state = "unloaded" THEN [raised |-> "none", store |-> file]
    ELSE [raised |-> "none", store |-> [file EXCEPT !.rows = rows]]

\* `if self.__state["stop"]:` in the update loop.
stop_requested_never(handle) == FALSE
stop_requested(handle) == handle.stop

\* Repository(url, path, template=tpl): a new handle on the same directory.
Repository(tpl) ==
    /\ repo.pc \in {"idle", "done"}
    /\ repo' = [NewRepository(repo.exists, repo.config, tpl, repo.engine)
                   EXCEPT !.connected = repo.connected,
                          !.renamed = repo.renamed]
    /\ idx' = "unloaded"
    /\ db' = {}
    /\ position' = 0
    /\ template' = DefaultTemplate
    /\ progress' = Progress(0, None)
    /\ inflight' = {}
    /\ UNCHANGED others
    /\ UNCHANGED <<disk, files, budget, last, firsts, prevMax>>

\* Repository.connect(): makedirs raises FileExistsError on an existing
\* repository, and the handler's `raise RepoConnectError` raises NameError, the
\* name being undefined.  Else the configuration is saved and the index created;
\* Index.create closes its connection and keeps the closed object.
Connect ==
    /\ repo.pc \in {"idle", "done"}
    /\ IF repo.exists
       THEN /\ repo' = [repo EXCEPT !.op = "connect", !.result = "NameError",
                                    !.pc = "done", !.hooks = <<>>,
                                    !.before = Snapshot(repo.exists, repo.config,
                                                        disk.rows, files)]
            /\ UNCHANGED <<disk, idx, db, position, template>>
       ELSE /\ repo' = [repo EXCEPT !.op = "connect", !.result = "returned",
                                    !.pc = "done", !.exists = TRUE,
                                    !.config = save_config(repo),
                                    !.connected = TRUE,
                                    !.hooks = <<"pre_connect">>,
                                    !.before = Snapshot(repo.exists, repo.config,
                                                        disk.rows, files)]
            /\ disk' = StoreFile("bdlitems", query_create_bdlitems, {})
            /\ idx' = "closed"
            /\ db' = {}
            /\ position' = 0
            /\ template' = DefaultTemplate
    /\ UNCHANGED <<progress, inflight>>
    /\ UNCHANGED others
    /\ UNCHANGED <<files, budget, last, firsts, prevMax>>

\* Repository._load_components, then the statements of _update that precede its
\* try block: what they raise (raw, to the caller) and the index they leave.
\* __load_index loads a new Index only when the handle has none.
load_components_creating(handle, file, state, pos) ==
    [raised |-> "none", store |-> StoreFile("bdlitems", query_create_bdlitems, {}),
     state |-> "loaded", position |-> 0, template |-> handle.template]
load_components(handle, file, state, pos) ==
    LET loaded == IF state = "unloaded" THEN load(file)
                  ELSE [raised |-> "none", store |-> file, position |-> pos]
        state2 == IF state # "unloaded" THEN state
                  ELSE IF loaded.raised = "none" THEN "loaded" ELSE "failed"
    IN [raised |-> IF ~handle.exists THEN "RepoLoadError"
                   ELSE IF ~handle.config.present THEN "RepoConfigError"
                   ELSE loaded.raised,
        store |-> IF handle.exists /\ handle.config.present THEN loaded.store
                  ELSE file,
        state |-> IF handle.exists /\ handle.config.present THEN state2 ELSE state,
        position |-> IF handle.exists /\ handle.config.present
                     THEN loaded.position ELSE pos,
        template |-> IF handle.exists /\ handle.config.present
                     THEN handle.config.template ELSE handle.template]

\* Repository._missing: the (storename, url) of every indexed item that has no
\* file under the root, in position order; here the urls.
RECURSIVE missing_urls(_, _)
missing_urls(fetched, tree) ==
    IF fetched = <<>> THEN <<>>
    ELSE (IF Head(fetched).storename \in DOMAIN tree THEN <<>>
          ELSE <<Head(fetched).url>>) \o missing_urls(Tail(fetched), tree)

missing(rows, tree) == missing_urls(OrderByPosition(rows), tree)

Range(seq) == {seq[i] : i \in DOMAIN seq}

\* Engine.update_selection(urls): the remote's items for the urls asked.
RECURSIVE update_selection(_, _)
update_selection(items, urls) ==
    IF items = <<>> THEN <<>>
    ELSE (IF Head(items).url \in Range(urls) THEN <<Head(items)>> ELSE <<>>)
         \o update_selection(Tail(items), urls)

\* The public operations and the flags each passes to _update.
Modes == {"update", "stash", "reset", "checkout"}
up_new(mode) == mode \in {"update", "checkout"}
up_missing(mode) == mode \in {"stash", "reset", "checkout"}
up_existing(mode) == mode \in {"stash", "checkout"}

\* The three mode blocks of _update, the later overriding the earlier: the
\* counter, the updater and the update flag handed to Index.store.
plan(mode) ==
    IF up_existing(mode)
    THEN [counter |-> "count_all", updater |-> "update_all", index_update |-> TRUE]
    ELSE IF up_missing(mode)
    THEN [counter |-> "len", updater |-> "update_selection", index_update |-> TRUE]
    ELSE [counter |-> "count_new", updater |-> "update_new",
          index_update |-> FALSE]

\* The engine operation that fails in an update, if one does.
Faults == {"none", "pre_update", "count"}

\* _update before its try block: _load_components, the reachability test, the
\* pre_update hook, and the index query of the mode block (get_last or _missing),
\* which fails on the connection that connect closed.  What is raised here
\* reaches the caller as it is.
before_try_unprobed(loaded, reachable, fault, queried, state) ==
    IF loaded # "none" THEN loaded
    ELSE IF fault = "pre_update" THEN "EngineError"
    ELSE IF queried /\ state = "closed" THEN "ProgrammingError"
    ELSE IF queried /\ state = "failed" THEN "OperationalError"
    ELSE "none"
before_try(loaded, reachable, fault, queried, state) ==
    IF loaded # "none" THEN loaded
    ELSE IF ~reachable THEN "RepoUpdateError"
    ELSE IF fault = "pre_update" THEN "EngineError"
    ELSE IF queried /\ state = "closed" THEN "ProgrammingError"
    ELSE IF queried /\ state = "failed" THEN "OperationalError"
    ELSE "none"

\* update(), stash(), reset() and checkout(): _update up to the head of its
\* loop.  The counter runs inside the try block.
UpdateEnter(mode, reachable, count, fault) ==
    /\ repo.pc \in {"idle", "done"}
    /\ budget > 0
    /\ fault = "count" => plan(mode).counter # "len"
    /\ budget' = budget - 1
    /\ \E c \in {load_components(repo, disk, idx, position)} :
       LET fresh == c.state = "loaded" /\ idx = "unloaded"
           rows == IF fresh THEN c.store.rows ELSE db
           queried == plan(mode).updater # "update_all"
           raised == before_try(c.raised, reachable, fault, queried, c.state)
           asked == missing(rows, files)
           counted == IF plan(mode).counter = "len" THEN Len(asked) ELSE count
           yielded == IF plan(mode).updater = "update_selection"
                      THEN update_selection(repo.engine.items, asked)
                      ELSE repo.engine.items
           probes == IF c.raised # "none" THEN <<>>
                     ELSE IF ~reachable THEN <<"is_reachable">>
                     ELSE <<"is_reachable", "pre_update">>
           handle == [repo EXCEPT !.op = "update", !.mode = mode,
                                  !.template = c.template,
                                  !.pending = "none", !.item = NoneItem,
                                  !.reachable = reachable, !.fault = fault,
                                  !.base = rows, !.stored = <<>>,
                                  !.drawn = <<>>, !.commit = "none",
                                  !.before = Snapshot(repo.exists, repo.config,
                                                      disk.rows, files),
                                  !.stopAt = NoStop]
       IN /\ disk' = c.store
          /\ idx' = c.state
          /\ db' = rows
          /\ position' = c.position
          /\ progress' = IF raised # "none" \/ fault = "count" THEN progress
                         ELSE [progress EXCEPT !.count = counted]
          /\ IF raised # "none"
             THEN /\ repo' = [handle EXCEPT !.result = raised, !.pc = "done",
                                            !.rest = <<>>, !.count = 0,
                                            !.hooks = probes]
                  /\ template' = IF fresh THEN DefaultTemplate ELSE template
             ELSE /\ template' = IF c.template # <<>> THEN c.template
                                 ELSE IF fresh THEN DefaultTemplate ELSE template
                  /\ repo' =
                       IF fault = "count"
                       THEN [handle EXCEPT
                                !.result = "none", !.count = 0, !.rest = <<>>,
                                !.pending = "RepoUpdateError", !.pc = "finally",
                                !.hooks = Append(probes, plan(mode).counter)]
                       ELSE IF counted = 0
                       THEN [handle EXCEPT
                                !.result = "none", !.count = 0, !.rest = <<>>,
                                !.pc = "finally",
                                !.hooks = Append(probes, plan(mode).counter)]
                       ELSE [handle EXCEPT
                                !.result = "none", !.count = counted,
                                !.rest = yielded, !.pc = "draw",
                                !.hooks = probes \o <<plan(mode).counter,
                                                      plan(mode).updater>>]
    /\ UNCHANGED inflight
    /\ UNCHANGED others
    /\ UNCHANGED <<files, last, firsts, prevMax>>

\* What bdl.downloaders.generic tells the tracker for a URL it downloads: add,
\* update as the chunks arrive, mark_finished.
download(p, url) == mark_finished(progress_update(add(p, url, 0), url, 100), url)

\* `for item in updater_func(*updater_args):` draws the next element; the
\* updater's error is caught and becomes RepoUpdateError.  An engine that
\* reports to the tracker does so as it downloads the element.
UpdateDraw ==
    /\ repo.pc = "draw"
    /\ repo' = IF repo.rest # <<>>
               THEN [repo EXCEPT !.item = Head(repo.rest),
                                 !.rest = Tail(repo.rest), !.pc = "check",
                                 !.drawn = IF Head(repo.rest) = NoneItem THEN @
                                           ELSE Append(@, Head(repo.rest).url)]
               ELSE [repo EXCEPT !.item = NoneItem, !.pc = "finally",
                                 !.pending = IF repo.engine.error # "none"
                                             THEN "RepoUpdateError" ELSE "none"]
    /\ IF repo.rest # <<>> /\ Head(repo.rest) # NoneItem /\ repo.engine.reports
       THEN /\ progress' = download(progress, Head(repo.rest).url)
            /\ inflight' = (inflight \cup {Len(progress.entries) + 1})
                              \ EntriesOf(download(progress, Head(repo.rest).url),
                                          Head(repo.rest).url)
       ELSE UNCHANGED <<progress, inflight>>
    /\ UNCHANGED others
    /\ UNCHANGED <<disk, idx, db, position, template, files, budget, last, firsts,
                   prevMax>>

\* The flag is tested once the element is drawn; a set flag breaks the loop.
UpdateCheck ==
    /\ repo.pc = "check"
    /\ repo' = [repo EXCEPT !.pc = IF stop_requested(repo) THEN "finally"
                                   ELSE "store"]
    /\ UNCHANGED <<progress, inflight>>
    /\ UNCHANGED others
    /\ UNCHANGED <<disk, idx, db, position, template, files, budget, last, firsts,
                   prevMax>>

\* `if item is not None:` in the loop of _update.
is_none_never(item) == FALSE
is_none(item) == item = NoneItem

\* A None element is logged; an item is stored with the mode's update flag, and
\* what Index.store raises (on the closed connection that connect left, at its
\* first query) is caught and becomes RepoUpdateError.
UpdateStore ==
    /\ repo.pc = "store"
    /\ IF is_none(repo.item)
       THEN /\ repo' = [repo EXCEPT !.pc = "draw"]
            /\ UNCHANGED <<db, position, files>>
       ELSE IF idx # "loaded"
       THEN /\ repo' = [repo EXCEPT !.pending = "RepoUpdateError",
                                    !.pc = "finally"]
            /\ UNCHANGED <<db, position, files>>
       ELSE LET r == store(db, position, template, files, repo.item,
                           plan(repo.mode).index_update)
            IN /\ db' = r.rows
               /\ position' = r.position
               /\ files' = r.files
               /\ repo' = IF r.raised # "none"
                          THEN [repo EXCEPT !.pending = "RepoUpdateError",
                                            !.pc = "finally"]
                          ELSE [repo EXCEPT
                                   !.pc = "draw",
                                   !.stored = IF r.branch = "new"
                                              THEN Append(@, repo.item.url) ELSE @]
    /\ UNCHANGED <<progress, inflight>>
    /\ UNCHANGED others
    /\ UNCHANGED <<disk, idx, template, budget, last, firsts, prevMax>>

\* finally: self.index.commit(); self.__save_config().  Then the pending error is
\* raised to the caller, or update returns.
UpdateFinally ==
    /\ repo.pc = "finally"
    /\ LET c == commit(disk, idx, db)
       IN /\ disk' = c.store
          /\ repo' = IF c.raised # "none"
                     THEN [repo EXCEPT !.result = c.raised, !.pc = "done",
                                       !.commit = "raised"]
                     ELSE [repo EXCEPT !.config = save_config(repo),
                                       !.commit = "returned",
                                       !.result = IF repo.pending # "none"
                                                  THEN repo.pending
                                                  ELSE "returned",
                                       !.pc = "done"]
    /\ UNCHANGED <<progress, inflight>>
    /\ UNCHANGED others
    /\ UNCHANGED <<idx, db, position, template, files, budget, last, firsts,
                   prevMax>>

\* Repository._stop: it sets the flag and raises RepoStopError in the thread
\* that runs it.  stopAt remembers the first signal of the running update: where
\* the loop was, and the rows, the counter and the files at that moment.
stopped(handle, rows, pos, tree) ==
    [handle EXCEPT
        !.stop = TRUE, !.stopRaised = TRUE,
        !.stopAt = IF @.set THEN @
                   ELSE [set |-> TRUE,
                         more |-> \/ handle.pc = "check"
                                  \/ handle.pc = "draw" /\ handle.rest # <<>>,
                         rows |-> rows, position |-> pos, files |-> tree,
                         pc |-> handle.pc, item |-> handle.item,
                         left |-> Len(handle.rest)]]

\* _stop run by the interrupt handler on the main thread, or called from another
\* thread, while a worker thread is in the update loop: the worker goes on to
\* its next test of the flag.
Stop ==
    /\ repo.pc \in {"draw", "check", "store"}
    /\ repo' = stopped(repo, db, position, files)
    /\ UNCHANGED <<progress, inflight>>
    /\ UNCHANGED others
    /\ UNCHANGED <<disk, idx, db, position, template, files, budget, last, firsts,
                   prevMax>>

\* Where RepoStopError lands when the update itself runs on the main thread, the
\* one that runs signal handlers: in the loop or the updater (caught by
\* `except RepoStopError`), inside a downloader's try block (downloaders.py wraps
\* every Exception into DownloadError, which becomes RepoUpdateError), inside
\* Index.store after the row was written and before the payload is, or in the
\* finally block before Index.commit is called (the error leaves _update and
\* neither the commit nor __save_config runs).
Landings == {"loop", "download", "inserted", "finally"}

\* The interrupt handler, run on the thread that is in the update loop.
Interrupt(landing) ==
    /\ landing = "loop" => repo.pc \in {"draw", "check"}
    /\ landing = "download" => repo.pc = "draw" /\ repo.rest # <<>>
    /\ landing = "inserted" =>
          repo.pc = "store" /\ repo.item # NoneItem /\ idx = "loaded"
    /\ landing = "finally" => repo.pc = "finally"
    /\ LET handle == stopped(repo, db, position, files)
           r == store(db, position, template, files, repo.item,
                      plan(repo.mode).index_update)
       IN /\ repo' = IF landing = "finally"
                     THEN [handle EXCEPT !.pc = "done", !.result = "RepoStopError"]
                     ELSE [handle EXCEPT
                             !.pc = "finally",
                             !.pending = IF landing = "download"
                                         THEN "RepoUpdateError" ELSE "none"]
          /\ db' = IF landing = "inserted" THEN r.rows ELSE db
          /\ position' = IF landing = "inserted" THEN r.position ELSE position
    /\ UNCHANGED <<progress, inflight>>
    /\ UNCHANGED others
    /\ UNCHANGED <<disk, idx, template, files, budget, last, firsts, prevMax>>

NextRepo ==
    \/ \E tpl \in {<<>>, FilenameTemplate} : Repository(tpl)
    \/ Connect
    \/ \E mode \in Modes, reachable \in BOOLEAN, count \in Counts,
          fault \in Faults : UpdateEnter(mode, reachable, count, fault)
    \/ UpdateDraw
    \/ UpdateCheck
    \/ UpdateStore
    \/ UpdateFinally
    \/ Stop
    \/ \E landing \in Landings : Interrupt(landing)

\* A repository driven through its public calls, the update on a worker thread.
SpecRepo == InitRepo /\ [][NextRepo]_vars

\* ------------------------------------------------- progress tracker calls
MaxProgressCalls == 4

\* A tracker as Repository.__init__ builds it, before any call.
InitProgress == InitWith(CurrentStores, MaxProgressCalls)

\* progress.add(url, percentage)
ProgressAdd(url, percentage) ==
    /\ budget > 0
    /\ budget' = budget - 1
    /\ progress' = add(progress, url, percentage)
    /\ inflight' = inflight \cup {Len(progress.entries) + 1}
    /\ UNCHANGED others
    /\ UNCHANGED <<disk, idx, db, position, template, files, last, firsts, prevMax, repo>>

\* progress.update(url, percentage)
ProgressUpdate(url, percentage) ==
    /\ budget > 0
    /\ budget' = budget - 1
    /\ progress' = progress_update(progress, url, percentage)
    /\ UNCHANGED inflight
    /\ UNCHANGED others
    /\ UNCHANGED <<disk, idx, db, position, template, files, last, firsts, prevMax, repo>>

\* progress.mark_finished(url)
MarkFinished(url) ==
    /\ budget > 0
    /\ budget' = budget - 1
    /\ progress' = mark_finished(progress, url)
    /\ inflight' = inflight \ EntriesOf(progress, url)
    /\ UNCHANGED others
    /\ UNCHANGED <<disk, idx, db, position, template, files, last, firsts, prevMax, repo>>

\* progress.mark_failed(url)
MarkFailed(url) ==
    /\ budget > 0
    /\ budget' = budget - 1
    /\ progress' = mark_failed(progress, url)
    /\ inflight' = inflight \ EntriesOf(progress, url)
    /\ UNCHANGED others
    /\ UNCHANGED <<disk, idx, db, position, template, files, last, firsts, prevMax, repo>>

\* progress.reset()
ProgressReset ==
    /\ budget > 0
    /\ budget' = budget - 1
    /\ progress' = progress_reset(progress)
    /\ inflight' = {}
    /\ UNCHANGED others
    /\ UNCHANGED <<disk, idx, db, position, template, files, last, firsts, prevMax, repo>>

\* progress.count = value
ProgressCount(value) ==
    /\ budget > 0
    /\ budget' = budget - 1
    /\ progress' = [progress EXCEPT !.count = value]
    /\ UNCHANGED inflight
    /\ UNCHANGED others
    /\ UNCHANGED <<disk, idx, db, position, template, files, last, firsts, prevMax, repo>>

NextProgress ==
    \/ \E url \in ProgressUrls, percentage \in Percentages : ProgressAdd(url, percentage)
    \/ \E url \in ProgressUrls, percentage \in Percentages : ProgressUpdate(url, percentage)
    \/ \E url \in ProgressUrls : MarkFinished(url)
    \/ \E url \in ProgressUrls : MarkFailed(url)
    \/ ProgressReset
    \/ \E value \in Counts : ProgressCount(value)

\* A tracker driven through its calls in any order.
SpecProgress == InitProgress /\ [][NextProgress]_vars

\* ------------------------------------------- the tracker under two threads
MaxPollCalls == 3

\* The calls the worker makes on the tracker.
WorkerCalls ==
    {[op |-> op, url |-> url, percentage |-> 50, value |-> 0] :
        op \in {"add", "update", "mark_finished", "mark_failed"}, url \in ProgressUrls}
    \cup {[op |-> "reset", url |-> None, percentage |-> 0, value |-> 0],
          [op |-> "count", url |-> None, percentage |-> 0, value |-> 2]}

InitPolling == InitWith({[store |-> AbsentStore, files |-> <<>>]}, MaxPollCalls)

\* The worker enters a call: it takes the lock.
WorkerEnter(call) ==
    /\ budget > 0
    /\ poll.call = NoWork
    /\ acquire(poll.lock)
    /\ budget' = budget - 1
    /\ poll' = [poll EXCEPT !.lock = "worker", !.call = call, !.pc = 1,
                            !.pre = progress]
    /\ UNCHANGED <<progress, inflight, registry, resolved>>
    /\ UNCHANGED <<disk, idx, db, position, template, files, last, firsts, prevMax, repo>>

\* The worker runs the next statement of its call.
WorkerStep ==
    /\ poll.call # NoWork
    /\ poll.pc <= call_steps(poll.pre, poll.call)
    /\ progress' = call_step(progress, poll.pre, poll.call, poll.pc)
    /\ poll' = [poll EXCEPT !.pc = @ + 1]
    /\ UNCHANGED <<inflight, budget, registry, resolved>>
    /\ UNCHANGED <<disk, idx, db, position, template, files, last, firsts, prevMax, repo>>

\* The worker leaves the `with` block: the lock is released, the call returns.
WorkerReturn ==
    /\ poll.call # NoWork
    /\ poll.pc > call_steps(poll.pre, poll.call)
    /\ poll' = [poll EXCEPT !.lock = "free", !.call = NoWork, !.pc = 0]
    /\ inflight' =
         CASE poll.call.op = "add" -> inflight \cup {Len(progress.entries)}
           [] poll.call.op \in {"mark_finished", "mark_failed"} ->
                inflight \ EntriesOf(progress, poll.call.url)
           [] poll.call.op = "reset" -> {}
           [] OTHER -> inflight
    /\ UNCHANGED <<progress, budget, registry, resolved>>
    /\ UNCHANGED <<disk, idx, db, position, template, files, last, firsts, prevMax, repo>>

\* The polling thread enters Progress.total: it takes the lock.
PollEnter ==
    /\ ~poll.polling
    /\ acquire(poll.lock)
    /\ poll' = [poll EXCEPT !.lock = "poller", !.polling = TRUE]
    /\ UNCHANGED <<progress, inflight, budget, registry, resolved>>
    /\ UNCHANGED <<disk, idx, db, position, template, files, last, firsts, prevMax, repo>>

\* The polling thread builds the ProgressState and leaves the `with` block.  The
\* read is noted with the totals before and after the worker's call in progress.
PollRead ==
    /\ poll.polling
    /\ poll' = [poll EXCEPT
                  !.lock = "free", !.polling = FALSE,
                  !.snapshot =
                     [taken |-> TRUE, value |-> total(progress),
                      before |-> IF poll.call = NoWork THEN total(progress)
                                 ELSE total(poll.pre),
                      after |-> IF poll.call = NoWork THEN total(progress)
                                ELSE total(apply(poll.pre, poll.call))]]
    /\ UNCHANGED <<progress, inflight, budget, registry, resolved>>
    /\ UNCHANGED <<disk, idx, db, position, template, files, last, firsts, prevMax, repo>>

NextPolling ==
    \/ \E call \in WorkerCalls : WorkerEnter(call)
    \/ WorkerStep
    \/ WorkerReturn
    \/ PollEnter
    \/ PollRead

\* The worker calling the tracker while __main__.print_progress polls it.
SpecPolling == InitPolling /\ [][NextPolling]_vars

\* ------------------------------------------------- engine registry calls
MaxEngineCalls == 3

InitEngine == InitWith({[store |-> AbsentStore, files |-> <<>>]}, MaxEngineCalls)

\* bdl.engine.preload() with the engine packages the installation holds.
Preload(found) ==
    /\ budget > 0
    /\ budget' = budget - 1
    /\ registry' = preload(registry, found)
    /\ resolved' = [NoResolve EXCEPT !.op = "preload", !.before = registry]
    /\ UNCHANGED <<progress, inflight, poll>>
    /\ UNCHANGED <<disk, idx, db, position, template, files, last, firsts, prevMax, repo>>

\* bdl.engine.load_by_url(url)
LoadByUrl(url) ==
    /\ budget > 0
    /\ budget' = budget - 1
    /\ resolved' = [NoResolve EXCEPT !.op = "load_by_url", !.url = url,
                                     !.ret = load_by_url(registry, url).ret,
                                     !.raised = load_by_url(registry, url).raised,
                                     !.before = registry]
    /\ UNCHANGED registry
    /\ UNCHANGED <<progress, inflight, poll>>
    /\ UNCHANGED <<disk, idx, db, position, template, files, last, firsts, prevMax, repo>>

\* bdl.engine.load_by_name(name)
LoadByName(name) ==
    /\ budget > 0
    /\ budget' = budget - 1
    /\ resolved' = [NoResolve EXCEPT !.op = "load_by_name", !.name = name,
                                     !.ret = load_by_name(registry, name).ret,
                                     !.raised = load_by_name(registry, name).raised,
                                     !.before = registry]
    /\ UNCHANGED registry
    /\ UNCHANGED <<progress, inflight, poll>>
    /\ UNCHANGED <<disk, idx, db, position, template, files, last, firsts, prevMax, repo>>

\* bdl.engine.validate(engine)
Validate(engine) ==
    /\ budget > 0
    /\ budget' = budget - 1
    /\ resolved' = [NoResolve EXCEPT !.op = "validate", !.engine = engine,
                                     !.raised = validate_engine(engine),
                                     !.before = registry]
    /\ UNCHANGED registry
    /\ UNCHANGED <<progress, inflight, poll>>
    /\ UNCHANGED <<disk, idx, db, position, template, files, last, firsts, prevMax, repo>>

NextEngine ==
    \/ \E found \in Installations : Preload(found)
    \/ \E url \in SiteUrls : LoadByUrl(url)
    \/ \E name \in {"one", "two", "broken", "three"} : LoadByName(name)
    \/ \E engine \in Adapters : Validate(engine)

\* The registry of engines under its calls in any order.
SpecEngine == InitEngine /\ [][NextEngine]_vars

\* ----------------------------------------------------- storename rendering
MaxStorenameCalls == 2

\* Templates naming keys that no item has, next to the ones above.
StorenameTemplates ==
    Templates \cup
    { <<Key("missing")>>,
      <<Key("tag"), Lit("-"), Key("missing"), Key("position"), Key("other"),
        Lit("."), Key("extension")>> }
\* Metadata with a key named like one of the three attributes of a storename.
PositionMeta == [k \in {"position"} |-> "9"]

StorenameItems ==
    ItemPool \cup {Item("a", "f", "ext", None, None, None, EmptyMeta, "tmp-f"),
                   Item("a", "f", "ext", None, None, None, PositionMeta, "tmp-f")}
StorenamePositions == {1, 3}

InitStorename == InitWith(CurrentStores, MaxStorenameCalls)

\* Index.build_storename(item, position, template)
BuildStorename(item, pos, tpl) ==
    /\ budget > 0
    /\ budget' = budget - 1
    /\ last' = [NoCall EXCEPT !.op = "build_storename", !.item = item,
                              !.template = tpl, !.position = pos,
                              !.ret = build_storename(item, pos, tpl)]
    /\ UNCHANGED <<progress, inflight>>
    /\ UNCHANGED others
    /\ UNCHANGED <<disk, idx, db, position, template, files, firsts, prevMax, repo>>

NextStorename ==
    \E item \in StorenameItems, pos \in StorenamePositions,
       tpl \in StorenameTemplates : BuildStorename(item, pos, tpl)

\* Storenames rendered for any item, position and template.
SpecStorename == InitStorename /\ [][NextStorename]_vars

\* ------------------------------------------- status, diff and rename calls
MaxHandleUpdates == 2

\* The engines of these runs: the remote holds a and b, with or without a null
\* element between them, and the updater reports each download to the tracker.
HandleEngines ==
    { [items |-> items, error |-> "none", reports |-> TRUE] :
        items \in {<<ItemA, ItemB>>, <<ItemA, NoneItem, ItemB>>} }

InitHandle == InitRepoWith(HandleEngines, MaxHandleUpdates)

RepoStatus(reachable, indexed, new, missing_count) ==
    [reachable |-> reachable, indexed |-> indexed, new |-> new,
     missing |-> missing_count]

\* What _load_components leaves for the calls that follow it: the rows seen
\* through the connection, and the error of the first query on an index that
\* connect left closed.
loaded_view(c, state, rows) ==
    [rows |-> IF c.state = "loaded" /\ state = "unloaded" THEN c.store.rows ELSE rows,
     raised |-> IF c.raised # "none" THEN c.raised
                ELSE IF c.state # "loaded" THEN "ProgrammingError"
                ELSE "none"]

\* Repository.status(): _load_components, Index.get_last, Engine.is_reachable,
\* Index.count, engine.count_new, then _missing.
Status(reachable, count) ==
    /\ repo.pc \in {"idle", "done"}
    /\ \E c \in {load_components(repo, disk, idx, position)} :
       \E v \in {loaded_view(c, idx, db)} :
          /\ disk' = c.store
          /\ idx' = c.state
          /\ db' = v.rows
          /\ position' = c.position
          /\ template' = IF c.state = "loaded" /\ idx = "unloaded"
                         THEN DefaultTemplate ELSE template
          /\ repo' = [repo EXCEPT
                        !.op = "status", !.pc = "done", !.template = c.template,
                        !.result = IF v.raised # "none" THEN v.raised ELSE "returned",
                        !.hooks = IF v.raised # "none" THEN <<>>
                                  ELSE <<"is_reachable", "count_new">>,
                        !.before = Snapshot(repo.exists, repo.config, disk.rows,
                                            files)]
          /\ last' = [NoCall EXCEPT
                        !.op = "status", !.raised = v.raised, !.branch = idx,
                        !.ret = IF v.raised # "none" THEN None
                                ELSE RepoStatus(reachable, Cardinality(v.rows), count,
                                                Len(missing(v.rows, files))),
                        !.rows = db, !.position = position, !.files = files]
    /\ UNCHANGED <<progress, inflight>>
    /\ UNCHANGED others
    /\ UNCHANGED <<files, budget, firsts, prevMax>>

\* Repository.diff(): _load_components, then Index.get_all and a test of each
\* item's file.
Diff ==
    /\ repo.pc \in {"idle", "done"}
    /\ \E c \in {load_components(repo, disk, idx, position)} :
       \E v \in {loaded_view(c, idx, db)} :
          /\ disk' = c.store
          /\ idx' = c.state
          /\ db' = v.rows
          /\ position' = c.position
          /\ template' = IF c.state = "loaded" /\ idx = "unloaded"
                         THEN DefaultTemplate ELSE template
          /\ repo' = [repo EXCEPT
                        !.op = "diff", !.pc = "done", !.template = c.template,
                        !.result = IF v.raised # "none" THEN v.raised ELSE "returned",
                        !.hooks = <<>>,
                        !.before = Snapshot(repo.exists, repo.config, disk.rows,
                                            files)]
          /\ last' = [NoCall EXCEPT
                        !.op = "diff", !.raised = v.raised, !.branch = idx,
                        !.ret = IF v.raised # "none" THEN <<>>
                                ELSE missing(v.rows, files),
                        !.rows = db, !.position = position, !.files = files]
    /\ UNCHANGED <<progress, inflight>>
    /\ UNCHANGED others
    /\ UNCHANGED <<files, budget, firsts, prevMax>>

\* Repository.rename(template): _load_components, `self.template = template`,
\* Index.rename, Index.commit, then __save_config.  An exception of any step
\* leaves the later steps undone.  `reachable` is what Engine.is_reachable
\* answers at the time of the call; _rename does not ask.
RepoRename(tpl, reachable) ==
    /\ repo.pc \in {"idle", "done"}
    /\ \E c \in {load_components(repo, disk, idx, position)} :
       \E v \in {loaded_view(c, idx, db)} :
       \E r \in {IF v.raised # "none"
                 THEN [rows |-> v.rows, files |-> files, log |-> <<>>,
                       raised |-> v.raised]
                 ELSE rename(v.rows, files, tpl,
                             IF idx = "unloaded" THEN DefaultTemplate ELSE template)} :
       \E w \in {IF r.raised # "none"
                 THEN [raised |-> r.raised, store |-> c.store]
                 ELSE commit(c.store, c.state, r.rows)} :
          LET handle == [repo EXCEPT
                           !.op = "rename", !.pc = "done", !.hooks = <<>>,
                           !.reachable = reachable,
                           !.template = IF c.raised # "none" THEN c.template ELSE tpl,
                           !.result = IF w.raised # "none" THEN w.raised
                                      ELSE "returned",
                           !.before = Snapshot(repo.exists, repo.config, disk.rows,
                                               files)]
          IN /\ disk' = w.store
             /\ idx' = c.state
             /\ db' = r.rows
             /\ files' = r.files
             /\ position' = c.position
             /\ template' = IF c.state = "loaded" /\ idx = "unloaded"
                            THEN DefaultTemplate ELSE template
             /\ repo' = IF w.raised # "none" THEN handle
                        ELSE [handle EXCEPT !.config = save_config(handle),
                                            !.renamed = tpl]
             /\ last' = [NoCall EXCEPT
                           !.op = "rename", !.template = tpl, !.raised = w.raised,
                           !.branch = idx, !.log = r.log,
                           !.rows = db, !.position = position, !.files = files]
    /\ UNCHANGED <<progress, inflight>>
    /\ UNCHANGED others
    /\ UNCHANGED <<budget, firsts, prevMax>>

NextHandle ==
    \/ \E tpl \in {<<>>, FilenameTemplate} : Repository(tpl)
    \/ Connect
    \/ \E mode \in {"update", "reset"}, count \in {0, 2} :
          UpdateEnter(mode, TRUE, count, "none")
    \/ UpdateDraw
    \/ UpdateCheck
    \/ UpdateStore
    \/ UpdateFinally
    \/ \E reachable \in BOOLEAN, count \in {0, 2} : Status(reachable, count)
    \/ Diff
    \/ \E tpl \in {<<>>, DefaultTemplate, FilenameTemplate}, reachable \in BOOLEAN :
          RepoRename(tpl, reachable)

\* A repository handle under update, status and diff calls in any order.
SpecHandle == InitHandle /\ [][NextHandle]_vars

\* ------------------------------------------------ cancellation, with fairness
MaxCancelUpdates == 1

InitCancel == InitRepoWith(Engines, MaxCancelUpdates)

NextCancel ==
    \/ \E tpl \in {<<>>, FilenameTemplate} : Repository(tpl)
    \/ \E mode \in {"update", "checkout"} : UpdateEnter(mode, TRUE, 2, "none")
    \/ UpdateDraw
    \/ UpdateCheck
    \/ UpdateStore
    \/ UpdateFinally
    \/ Stop
    \/ \E landing \in Landings : Interrupt(landing)

\* The thread that runs the update goes on running: the updater yields its next
\* element or ends, the flag is tested, the element is stored, the finally
\* block is run.  Nothing makes a stop arrive.
SpecCancel ==
    /\ InitCancel
    /\ [][NextCancel]_vars
    /\ WF_vars(UpdateDraw)
    /\ WF_vars(UpdateCheck)
    /\ WF_vars(UpdateStore)
    /\ WF_vars(UpdateFinally)

\* ------------------------------------------- one call on a worker thread
MaxWorkerCalls == 2

InitCall == InitWith({[store |-> AbsentStore, files |-> <<>>]}, MaxWorkerCalls)

\* run_repo_call: `thread = threading.Thread(target=run); thread.start()`, then
\* print_progress is entered.
ThreadStart ==
    /\ poll.caller = "start"
    /\ poll' = [poll EXCEPT !.caller = "is_alive", !.worker = "alive"]
    /\ UNCHANGED <<progress, inflight, budget, registry, resolved>>
    /\ UNCHANGED <<disk, idx, db, position, template, files, last, firsts, prevMax, repo>>

\* The worker, inside `call()`, makes one call on the tracker.
Run(call) ==
    /\ poll.worker = "alive"
    /\ budget > 0
    /\ budget' = budget - 1
    /\ progress' = apply(progress, call)
    /\ poll' = [poll EXCEPT !.muts = @ + 1]
    /\ UNCHANGED <<inflight, registry, resolved>>
    /\ UNCHANGED <<disk, idx, db, position, template, files, last, firsts, prevMax, repo>>

\* `call()` returns or raises inside `run`: the thread ends.
RunEnd ==
    /\ poll.worker = "alive"
    /\ poll' = [poll EXCEPT !.worker = "dead"]
    /\ UNCHANGED <<progress, inflight, budget, registry, resolved>>
    /\ UNCHANGED <<disk, idx, db, position, template, files, last, firsts, prevMax, repo>>

\* print_progress: `while thread.is_alive():`.
IsAlive ==
    /\ poll.caller = "is_alive"
    /\ poll' = [poll EXCEPT
                  !.caller = IF poll.worker = "alive" THEN "printer" ELSE "final"]
    /\ UNCHANGED <<progress, inflight, budget, registry, resolved>>
    /\ UNCHANGED <<disk, idx, db, position, template, files, last, firsts, prevMax, repo>>

\* print_progress: `printer(repo.progress.total)`, in the loop (followed by the
\* sleep) and once more after it.
Printer ==
    /\ poll.caller \in {"printer", "final"}
    /\ poll' = [poll EXCEPT
                  !.caller = IF poll.caller = "printer" THEN "is_alive" ELSE "join",
                  !.seen = poll.muts,
                  !.snapshot = [taken |-> TRUE, value |-> total(progress),
                                before |-> total(progress),
                                after |-> total(progress)]]
    /\ UNCHANGED <<progress, inflight, budget, registry, resolved>>
    /\ UNCHANGED <<disk, idx, db, position, template, files, last, firsts, prevMax, repo>>

\* run_repo_call: `thread.join()` returns once the thread has ended.
Join ==
    /\ poll.caller = "join"
    /\ poll.worker = "dead"
    /\ poll' = [poll EXCEPT !.caller = "returned"]
    /\ UNCHANGED <<progress, inflight, budget, registry, resolved>>
    /\ UNCHANGED <<disk, idx, db, position, template, files, last, firsts, prevMax, repo>>

\* SIGINT while run_repo_call runs: Python runs the handler Repository._stop in
\* the main thread, which is the polling one; the flag is set and RepoStopError
\* is raised there, and neither print_progress nor run_repo_call catches it.
Sigint ==
    /\ poll.caller \in {"is_alive", "printer", "final", "join"}
    /\ repo' = [repo EXCEPT !.stop = TRUE]
    /\ poll' = [poll EXCEPT !.caller = "RepoStopError"]
    /\ UNCHANGED <<progress, inflight, budget, registry, resolved>>
    /\ UNCHANGED <<disk, idx, db, position, template, files, last, firsts, prevMax>>

NextCall ==
    \/ ThreadStart
    \/ \E call \in WorkerCalls : Run(call)
    \/ RunEnd
    \/ IsAlive
    \/ Printer
    \/ Join
    \/ Sigint

\* __main__.run_repo_call: one repository call on a worker thread, polled by the
\* caller.
SpecCall == InitCall /\ [][NextCall]_vars

\* ------------------------------------------- updates after a stopped update
MaxRestartUpdates == 2

InitRestart == InitRepoWith(Engines, MaxRestartUpdates)

NextRestart ==
    \/ Repository(<<>>)
    \/ UpdateEnter("update", TRUE, 2, "none")
    \/ UpdateDraw
    \/ UpdateCheck
    \/ UpdateStore
    \/ UpdateFinally
    \/ Stop

\* Updates on one handle or on new ones, with stop() called from another thread.
SpecRestart == InitRestart /\ [][NextRestart]_vars

\* ------------------------------------------- updates whose payload is lost
MaxPayloadUpdates == 2

ItemGone == Item("g", None, None, None, None, None, EmptyMeta, MissingTempfile)

\* The remote yields an item whose temporary file is gone, between two others.
PayloadEngines ==
    { [items |-> items, error |-> "none", reports |-> FALSE] :
        items \in {<<ItemA, ItemGone, ItemB>>, <<ItemGone>>, <<ItemA, ItemB>>} }

InitPayload == InitRepoWith(PayloadEngines, MaxPayloadUpdates)

NextPayload ==
    \/ Repository(<<>>)
    \/ \E mode \in {"update", "checkout"} : UpdateEnter(mode, TRUE, 2, "none")
    \/ UpdateDraw
    \/ UpdateCheck
    \/ UpdateStore
    \/ UpdateFinally

\* Updates and checkouts in which shutil.move fails for one item.
SpecPayload == InitPayload /\ [][NextPayload]_vars

\* ------------------------------------------- marks and reads racing a reset
MaxRaceCalls == 4

InitRace == InitWith({[store |-> AbsentStore, files |-> <<>>]}, MaxRaceCalls)

\* The tracker in which the list held by a caller stands for the attribute: the
\* list reset discarded when the caller read the attribute before the reset.
held(p, reference, state) ==
    IF reference.resets = state.resets THEN p
    ELSE [p EXCEPT ![reference.list] = state.discarded[reference.list]]

\* Progress.add, a whole call.
RaceAdd(url) ==
    /\ budget > 0
    /\ budget' = budget - 1
    /\ progress' = add(progress, url, 0)
    /\ UNCHANGED <<inflight, poll, registry, resolved>>
    /\ UNCHANGED <<disk, idx, db, position, template, files, last, firsts, prevMax, repo>>

\* Progress.reset, a whole call: the four lists are replaced by new ones.
RaceReset ==
    /\ budget > 0
    /\ budget' = budget - 1
    /\ progress' = progress_reset(progress)
    /\ poll' = [poll EXCEPT !.resets = @ + 1, !.discarded = progress]
    /\ UNCHANGED <<inflight, registry, resolved>>
    /\ UNCHANGED <<disk, idx, db, position, template, files, last, firsts, prevMax, repo>>

\* mark_finished / mark_failed: the argument `self.__finished` or
\* `self.__failed` of the call of __mark is evaluated, the lock not yet taken.
MarkArgument(list, url) ==
    /\ budget > 0
    /\ poll.marking = NoReference
    /\ budget' = budget - 1
    /\ poll' = [poll EXCEPT !.marking = [list |-> list, url |-> url,
                                        resets |-> poll.resets]]
    /\ UNCHANGED <<progress, inflight, registry, resolved>>
    /\ UNCHANGED <<disk, idx, db, position, template, files, last, firsts, prevMax, repo>>

\* __mark under the lock: the loop reads self.__entries and self.__currents
\* as they are now and appends to the list it was handed.
MarkLocked ==
    /\ poll.marking # NoReference
    /\ \E m \in {mark(held(progress, poll.marking, poll), poll.marking.url,
                      poll.marking.list, <<>>)} :
          LET stale == poll.marking.resets # poll.resets
          IN /\ progress' = IF stale
                            THEN [m EXCEPT ![poll.marking.list] =
                                              progress[poll.marking.list]]
                            ELSE m
             /\ poll' = [poll EXCEPT
                           !.marking = NoReference,
                           !.discarded = IF stale
                                         THEN [@ EXCEPT ![poll.marking.list] =
                                                          m[poll.marking.list]]
                                         ELSE @,
                           !.stale_mark = stale /\ m[poll.marking.list] #
                                             poll.discarded[poll.marking.list]]
    /\ UNCHANGED <<inflight, budget, registry, resolved>>
    /\ UNCHANGED <<disk, idx, db, position, template, files, last, firsts, prevMax, repo>>

\* currents / finished / failed: the argument of the call of __get_container is
\* evaluated, the lock not yet taken.
AccessorArgument(list) ==
    /\ budget > 0
    /\ poll.reading = NoReference
    /\ budget' = budget - 1
    /\ poll' = [poll EXCEPT !.reading = [list |-> list, url |-> None,
                                        resets |-> poll.resets]]
    /\ UNCHANGED <<progress, inflight, registry, resolved>>
    /\ UNCHANGED <<disk, idx, db, position, template, files, last, firsts, prevMax, repo>>

\* __get_container under the lock: the positions of the list it was handed are
\* looked up in self.__entries as it is now.
AccessorLocked ==
    /\ poll.reading # NoReference
    /\ LET p == held(progress, poll.reading, poll)
           stale == poll.reading.resets # poll.resets
       IN poll' = [poll EXCEPT
                     !.reading = NoReference,
                     !.read = get_container(progress, p[poll.reading.list]).raised,
                     !.stale_read = stale /\ p[poll.reading.list] # <<>>]
    /\ UNCHANGED <<progress, inflight, budget, registry, resolved>>
    /\ UNCHANGED <<disk, idx, db, position, template, files, last, firsts, prevMax, repo>>

NextRace ==
    \/ \E url \in ProgressUrls : RaceAdd(url)
    \/ RaceReset
    \/ \E list \in {"finished", "failed"}, url \in ProgressUrls :
          MarkArgument(list, url)
    \/ MarkLocked
    \/ \E list \in {"currents", "finished", "failed"} : AccessorArgument(list)
    \/ AccessorLocked

\* Threads calling add, reset, the marks and the accessors on one tracker.
SpecRace == InitRace /\ [][NextRace]_vars

\* ------------------------------------------------------------ properties
RowOf(rows, url) == CHOOSE r \in rows : r.url = url
Indexed(rows, url) == \E r \in rows : r.url = url

\* C1: position monotonicity.  On an index loaded from a store whose highest
\* position is prevMax (0 when empty), the i-th store call made for a URL that
\* was not yet indexed gives that URL the position prevMax + i, whatever updates
\* in place, ignored calls and renames come in between; so no position is
\* assigned twice.
PositionMonotonicity ==
    idx = "loaded" =>
        /\ \A i \in 1..Len(firsts) :
              /\ Indexed(db, firsts[i])
              /\ \A r \in db : r.url = firsts[i] => r.position = prevMax + i
        /\ \A i, j \in 1..Len(firsts) : i # j => firsts[i] # firsts[j]
        /\ position = prevMax + Len(firsts)

\* Two first-time stores on a store that already held items, after an update in
\* place of an older row.
PositionMonotonicityWitness ==
    /\ idx = "loaded"
    /\ prevMax > 0
    /\ Len(firsts) >= 2
    /\ last.op = "store" /\ last.branch = "new"
    /\ \E r \in db : r.position <= prevMax /\ r.filename = "a2"

\* C2: in every state reached by store (update true or false) and rename calls on
\* a loaded index, no two rows have the same url and no two the same position.
UrlAndPositionUnique ==
    idx = "loaded" =>
        \A r1, r2 \in db : r1 # r2 => r1.url # r2.url /\ r1.position # r2.position

UrlAndPositionUniqueWitness ==
    /\ idx = "loaded"
    /\ Cardinality(db) >= 3
    /\ last.op = "store" /\ last.upd /\ last.branch = "update"
    /\ \E r \in db : r.storename = "x.e"

\* C3: idempotent re-ingestion.  store with update=False for a URL that is
\* already indexed returns None, raises nothing, and leaves the rows, the position
\* counter and the files as they were.
IgnoredCall ==
    /\ last.op = "store" /\ last.item # NoneItem /\ ~last.upd
    /\ Indexed(last.rows, last.item.url)

IdempotentReingestion ==
    IgnoredCall =>
        /\ last.ret = None /\ last.raised = "none"
        /\ db = last.rows
        /\ position = last.position
        /\ files = last.files

\* The second store of an item whose file is on disk, with other data.
IdempotentReingestionWitness ==
    /\ IgnoredCall
    /\ last.item.filename = "a2"
    /\ RowOf(db, "a").filename = "a"
    /\ RowOf(db, "a").storename \in DOMAIN files

\* C4: store with update=True for a URL that is already indexed keeps the row's
\* position, renders the storename with that position, leaves the number of rows
\* and the position counter as they were.
UpdateCall ==
    /\ last.op = "store" /\ last.item # NoneItem /\ last.upd
    /\ Indexed(last.rows, last.item.url)

UpdateInPlace ==
    UpdateCall =>
        /\ Indexed(db, last.item.url)
        /\ \A r \in db : r.url = last.item.url =>
              /\ r.position = RowOf(last.rows, last.item.url).position
              /\ r.storename = build_storename(last.item, r.position, template)
        /\ Cardinality(db) = Cardinality(last.rows)
        /\ {r \in db : r.url # last.item.url} = {r \in last.rows : r.url # last.item.url}
        /\ position = last.position

\* An update of a row that is not the last one, which changes its storename.
UpdateInPlaceWitness ==
    /\ UpdateCall
    /\ RowOf(last.rows, last.item.url).position < last.position
    /\ RowOf(db, last.item.url).storename # RowOf(last.rows, last.item.url).storename
    /\ RowOf(db, last.item.url).storename \in DOMAIN files

\* C8: after store of an item that is not yet indexed, the call has returned the
\* storename rendered with the newly assigned position and a file with the item's
\* payload is at root/<storename>, for an item held in a temporary file and for
\* an item held in memory alike.
FirstStoreCall ==
    /\ last.op = "store" /\ last.item # NoneItem
    /\ ~Indexed(last.rows, last.item.url)

Payload(item) == IF item.tempfile # None THEN item.tempfile ELSE item.content

StoreNewWritesFile ==
    FirstStoreCall =>
        /\ last.raised = "none"
        /\ last.ret = build_storename(last.item, last.position + 1, template)
        /\ last.ret \in DOMAIN files
        /\ files[last.ret] = Payload(last.item)

\* C10: rename tolerance.  rename over a non-empty index, some of whose items have
\* no file on disk, raises nothing; each item whose file is there when the loop
\* reaches it is moved from its old storename to its new one, an item whose file
\* is absent is passed over, and the row of every item gets the new storename.
RenameCall == last.op = "rename" /\ last.rows # {}

RenameTemplate == IF last.template # <<>> THEN last.template ELSE template

NewStorename(r) == build_storename(RowItem(r), r.position, RenameTemplate)

RECURSIVE MovePresent(_, _)
MovePresent(tree, fetched) ==
    IF fetched = <<>> THEN tree
    ELSE LET old == Head(fetched).storename
             new == NewStorename(Head(fetched))
         IN MovePresent(IF old \in DOMAIN tree /\ old # new
                        THEN [n \in ((DOMAIN tree) \ {old}) \cup {new} |->
                                 IF n = new THEN tree[old] ELSE tree[n]]
                        ELSE tree,
                        Tail(fetched))

\* No other row has the old or the new storename of r as its old or new one.
Undisturbed(r, rows) ==
    \A s \in rows \ {r} :
        {s.storename, NewStorename(s)} \cap {r.storename, NewStorename(r)} = {}

RenameTolerance ==
    RenameCall =>
        /\ last.raised = "none"
        /\ files = MovePresent(last.files, OrderByPosition(last.rows))
        /\ \A r \in last.rows :
              r.storename \in DOMAIN last.files /\ Undisturbed(r, last.rows) =>
                 /\ NewStorename(r) \in DOMAIN files
                 /\ files[NewStorename(r)] = last.files[r.storename]
        /\ {[position |-> r.position, url |-> r.url] : r \in db}
              = {[position |-> r.position, url |-> r.url] : r \in last.rows}
        /\ \A r \in db : r.storename = NewStorename(r)

\* A rename that changes the storenames, over one item whose file is absent and
\* one whose file is present.
RenameToleranceWitness ==
    /\ RenameCall
    /\ \E r \in last.rows : r.storename \notin DOMAIN last.files
    /\ \E r \in last.rows :
          /\ r.storename \in DOMAIN last.files
          /\ NewStorename(r) # r.storename
          /\ NewStorename(r) \in DOMAIN files
          /\ r.storename \notin DOMAIN files

\* C9: schema migration safety.  For a store created with a leading subset of
\* the reference columns, load() succeeds, every row the store held is still
\* there with the values it had, and validate then passes on the store.
LoadCall == last.op = "load"

MigrationSafety ==
    LoadCall =>
        /\ last.raised = "none"
        /\ idx = "loaded"
        /\ Cardinality(db) = Cardinality(last.rows)
        /\ \A old \in last.rows :
              \E r \in db : \A c \in DOMAIN old : r[c] = old[c]
        /\ validate(disk) = "ok"

\* -------------------------------------------------- repository properties
UpdateDone == repo.op = "update" /\ repo.pc = "done"

\* C5: cancellation durability.  When stop is signalled during an update while no
\* store is in progress and the updater has more to yield, the update returns to
\* its caller without an error, and the committed index holds exactly the rows
\* it held at the signal: those it had before the update and the k items stored.
StoppedBetweenItems == UpdateDone /\ repo.stopAt.set /\ repo.stopAt.more

CancellationDurability ==
    StoppedBetweenItems =>
        /\ repo.result = "returned"
        /\ disk.rows = repo.stopAt.rows
        /\ position = repo.stopAt.position
        /\ Cardinality(disk.rows) = Cardinality(repo.base) + Len(repo.stored)
        /\ \A i \in 1..Len(repo.stored) : Indexed(disk.rows, repo.stored[i])

CancellationDurabilityWitness ==
    /\ StoppedBetweenItems
    /\ repo.result = "returned"
    /\ repo.stored = <<"a">>
    /\ Indexed(disk.rows, "a")
    /\ ~Indexed(disk.rows, "b")

\* C6: when the updater (or a store) fails after k items were stored, update
\* raises RepoUpdateError, and when the error reaches the caller the index file
\* holds the rows of the connection, the k stored items among them, and
\* config.json holds the handle's configuration; the same commit has run whenever
\* update got into its try block: on success, on failure and on cancellation.
UpdateFailed == UpdateDone /\ repo.pending = "RepoUpdateError"

Committed == disk.rows = db /\ repo.config = save_config(repo)

FailureDurability ==
    /\ UpdateFailed =>
          /\ repo.result = "RepoUpdateError"
          /\ Committed
          /\ \A i \in 1..Len(repo.stored) : Indexed(disk.rows, repo.stored[i])
          /\ Cardinality(disk.rows) >= Cardinality(repo.base) + Len(repo.stored)
    /\ UpdateDone /\ repo.result = "returned" => Committed

FailureDurabilityWitness ==
    /\ UpdateFailed
    /\ repo.engine.error = "EngineError"
    /\ repo.rest = <<>>
    /\ repo.stored = <<"a", "b">>
    /\ ~Indexed(repo.base, "a")
    /\ Indexed(disk.rows, "a") /\ Indexed(disk.rows, "b")
    /\ repo.result = "RepoUpdateError"

\* C7: end to end.  After connect on a directory without a repository and an
\* update, not stopped, with a reachable engine that counts 2 and yields an item
\* for a and then one for b, under a null template, the index holds 2 rows, a at
\* position 1 and b at position 2, and the files 1.<extension> and 2.<extension>
\* are in the root directory.
ConnectedThenUpdated ==
    /\ UpdateDone
    /\ repo.mode = "update"
    /\ repo.fault = "none"
    /\ repo.connected
    /\ repo.reachable
    /\ repo.count = 2
    /\ repo.engine.error = "none"
    /\ Len(repo.engine.items) = 2
    /\ ~repo.stop
    /\ repo.template = <<>>
    /\ budget = MaxUpdates - 1

EndToEnd ==
    ConnectedThenUpdated =>
        /\ repo.result = "returned"
        /\ Cardinality(disk.rows) = 2
        /\ \A i \in 1..2 :
              LET item == repo.engine.items[i]
                  name == build_storename(item, i, DefaultTemplate)
              IN /\ Indexed(disk.rows, item.url)
                 /\ RowOf(disk.rows, item.url).position = i
                 /\ RowOf(disk.rows, item.url).storename = name
                 /\ name \in DOMAIN files

\* ------------------------------------------------------- further properties
\* C11: store called with None in place of an item returns None without raising
\* and leaves the rows, the position counter and the files as they were.
NullStoreCall == last.op = "store" /\ last.item = NoneItem

NullStoreNoOp ==
    NullStoreCall =>
        /\ last.raised = "none"
        /\ last.ret = None
        /\ db = last.rows
        /\ position = last.position
        /\ files = last.files

\* C12: connect on a directory that already holds a repository fails with a
\* connect error, the engine's pre_connect hook is not invoked, and config.json,
\* the index and the files stay as they were.
ConnectOnExisting == repo.op = "connect" /\ repo.pc = "done" /\ repo.before.exists

ConnectRefused ==
    ConnectOnExisting =>
        /\ repo.result \in {"RepoConnectError", "ConnectError"}
        /\ repo.hooks = <<>>
        /\ repo.config = repo.before.config
        /\ disk.rows = repo.before.rows
        /\ files = repo.before.files

\* C13: when the engine reports the remote as unreachable, update, stash, reset
\* and checkout alike fail with RepoUpdateError; of the engine only the
\* reachability probe was invoked (not pre_update, the counter or the updater),
\* and the index (on disk and through the handle's connection), config.json and
\* the files are as they were before the call.
UnreachableUpdate == UpdateDone /\ repo.before.exists /\ ~repo.reachable

UnreachableRefused ==
    UnreachableUpdate =>
        /\ repo.result = "RepoUpdateError"
        /\ repo.hooks = <<"is_reachable">>
        /\ disk.rows = repo.before.rows
        /\ db = repo.base
        /\ repo.config = repo.before.config
        /\ files = repo.before.files

UnreachableRefusedWitness ==
    /\ UnreachableUpdate
    /\ repo.mode = "checkout"
    /\ repo.engine.items # <<>>
    /\ repo.result = "RepoUpdateError"
    /\ Cardinality(disk.rows) = 2

\* C14: a failure raised by an engine operation that an update invokes (the
\* pre_update hook, the counter, the updater while it is consumed) reaches the
\* caller of the update as RepoUpdateError.
LastHook == IF repo.hooks = <<>> THEN "none" ELSE repo.hooks[Len(repo.hooks)]

EngineFailed ==
    /\ UpdateDone
    /\ \/ repo.fault = "pre_update" /\ LastHook = "pre_update"
       \/ repo.fault = "count" /\ LastHook = plan(repo.mode).counter
       \/ /\ repo.fault = "none" /\ repo.engine.error # "none"
          /\ LastHook = plan(repo.mode).updater
          /\ repo.rest = <<>> /\ repo.item = NoneItem
          /\ repo.pending = "RepoUpdateError"

EngineFailureWrapped == EngineFailed => repo.result = "RepoUpdateError"

\* C15: when the engine's counter reports 0, the update still consumes the
\* updater and stores what it yields, as it does for a negative count: after an
\* update that was neither stopped nor failed, every item of the updater's
\* sequence is indexed.
Uneventful ==
    /\ UpdateDone
    /\ repo.fault = "none" /\ repo.engine.error = "none"
    /\ ~repo.stop
    /\ repo.result = "returned"

ZeroCounted ==
    /\ Uneventful
    /\ plan(repo.mode).counter \in {"count_new", "count_all"}
    /\ plan(repo.mode).counter \in Range(repo.hooks)
    /\ repo.count = 0

AllYieldedIndexed ==
    \A i \in DOMAIN repo.engine.items :
        repo.engine.items[i] # NoneItem =>
            Indexed(disk.rows, repo.engine.items[i].url)

ZeroCountConsumes ==
    ZeroCounted =>
        /\ plan(repo.mode).updater \in Range(repo.hooks)
        /\ AllYieldedIndexed

\* C16: the four public operations are distinct compositions.  update never
\* modifies a row that was indexed; reset touches only items whose file is
\* missing and inserts none; stash refreshes indexed items in place and never
\* inserts a row for a URL that was not indexed; checkout also inserts the new
\* items the remote holds.
IndexedUrls(rows) == {r.url : r \in rows}

UpdateKeepsRows == repo.mode = "update" => repo.base \subseteq db

ResetMissingOnly ==
    repo.mode = "reset" =>
        /\ IndexedUrls(db) = IndexedUrls(repo.base)
        /\ \A r \in repo.base : r.storename \in DOMAIN repo.before.files => r \in db

StashInsertsNothing ==
    repo.mode = "stash" => IndexedUrls(db) = IndexedUrls(repo.base)

CheckoutInsertsNew ==
    repo.mode = "checkout" /\ Uneventful /\ repo.count # 0 => AllYieldedIndexed

PolicyCompositions ==
    repo.op = "update" =>
        /\ UpdateKeepsRows
        /\ ResetMissingOnly
        /\ StashInsertsNothing
        /\ CheckoutInsertsNew

\* C17: stop only sets the cancellation flag; it returns normally to whoever
\* called it, the interrupt handler included, and raises nothing.
StopReturnsNormally == repo.stop => ~repo.stopRaised

\* C18: once the flag is set during an update, no store of a further item
\* begins.  A store that was in progress at the signal ends as it would have
\* without the signal; an item that was drawn or is drawn next is not stored.
StoreInProgress ==
    LET s == repo.stopAt
    IN IF idx = "loaded" /\ s.item # NoneItem
       THEN store(s.rows, s.position, template, s.files, s.item,
                  plan(repo.mode).index_update)
       ELSE StoreResult(s.rows, s.position, s.files, None, "none", "none")

NoStoreAfterStop ==
    repo.op = "update" /\ repo.stopAt.set =>
        IF repo.stopAt.pc = "store"
        THEN \/ /\ repo.pc = "store"
                /\ db = repo.stopAt.rows
                /\ files = repo.stopAt.files
             \/ /\ repo.pc # "store"
                /\ db = StoreInProgress.rows
                /\ position = StoreInProgress.position
                /\ files = StoreInProgress.files
        ELSE /\ db = repo.stopAt.rows
             /\ position = repo.stopAt.position
             /\ files = repo.stopAt.files

\* The values of a list are all different.
NoDuplicates(seq) == Cardinality(Range(seq)) = Len(seq)

\* C19: the finished list and the failed list share no entry, no entry is in
\* either list twice, and the finished and failed counts of total add up to at
\* most the number of entries added, after any calls of add, update,
\* mark_finished and mark_failed, repeated marks of one URL included.
MarksCountedOnce ==
    /\ Range(progress.finished) \cap Range(progress.failed) = {}
    /\ NoDuplicates(progress.finished \o progress.failed)
    /\ total(progress).finished + total(progress).failed <= Len(progress.entries)

\* The entries at the places of a set, in add order.
RECURSIVE EntriesAt(_, _, _)
EntriesAt(p, places, n) ==
    IF n = 0 THEN <<>>
    ELSE IF n \in places THEN Append(EntriesAt(p, places, n - 1), p.entries[n])
    ELSE EntriesAt(p, places, n - 1)

\* C20: the in-flight list reads as the entries added and not yet marked
\* finished or failed, each once, in add order.
InFlightExact ==
    /\ currents(progress).raised = "none"
    /\ currents(progress).items = EntriesAt(progress, inflight, Len(progress.entries))

\* The worker is between calls and the tracker is as the whole call leaves it.
WholeCalls == poll.call # NoWork /\ poll.pc > call_steps(poll.pre, poll.call)
                 => progress = apply(poll.pre, poll.call)

\* C21: a total read by the polling thread equals the total of the tracker
\* before or after the whole call the worker was running at that moment, never
\* that of a state in the middle of the call.
SnapshotAtomic ==
    poll.snapshot.taken =>
        poll.snapshot.value \in {poll.snapshot.before, poll.snapshot.after}

\* A snapshot was read after the worker sized the tracker and added an entry,
\* and the worker is now in the middle of a reset, the total of the tracker
\* being neither the one before the reset nor the one after it.
SnapshotAtomicWitness ==
    /\ poll.snapshot.taken
    /\ poll.snapshot.value.count = 2
    /\ poll.snapshot.value.percentage = 50
    /\ poll.call.op = "reset"
    /\ poll.pc \in 2..Len(ResetOrder)
    /\ total(progress) \notin {total(poll.pre), total(apply(poll.pre, poll.call))}

\* The last call was load_by_url; the host of its URL and that host's rules.
ResolvedByUrl == resolved.op = "load_by_url"
ResolvedHost == urlparse_netloc(resolved.url)
HostRegistered == HasKey(resolved.before.by_netloc, ResolvedHost)
HostRules == IF HostRegistered THEN Lookup(resolved.before.by_netloc, ResolvedHost)
             ELSE <<>>
Matching == {i \in 1..Len(HostRules) : re_match(HostRules[i].url_regex, resolved.url)}

\* C22: for a URL whose host has rules, some of them matching, load_by_url ends
\* as loading the engine named by the earliest matching rule, in registration
\* order, does: the module returned is that rule's, whatever later rules match.
FirstMatchWins ==
    ResolvedByUrl /\ ResolvedHost # "" /\ Matching # {} =>
        LET first == CHOOSE i \in Matching : \A j \in Matching : i <= j
            named == load_by_name(resolved.before, HostRules[first].engine_name)
        IN resolved.ret = named.ret /\ resolved.raised = named.raised

\* A module was returned for a URL that a later rule, naming another engine,
\* matches as well.
FirstMatchWinsWitness ==
    /\ ResolvedByUrl
    /\ resolved.ret # None
    /\ \E i \in Matching, j \in Matching :
          /\ i < j
          /\ \A k \in Matching : i <= k
          /\ HostRules[i].engine_name # HostRules[j].engine_name
          /\ load_by_name(resolved.before, HostRules[j].engine_name).ret
                \notin {None, resolved.ret}

ValidateRequiresCapabilities ==
    resolved.op = "validate" /\ ~(Capabilities \subseteq resolved.engine.methods)
        => resolved.raised = "EngineStructureError"

\* The keys build_storename knows for an item.
KnownKeys(item) == {"position", "filename", "extension"} \cup DOMAIN item.meta
KnownPart(part) == part.kind = "lit" \/ part.text \in KnownKeys(last.item)

ViewDone ==
    /\ last.op \in {"status", "diff"}
    /\ repo.op = last.op
    /\ repo.pc = "done"
    /\ repo.before.exists

\* C26: status and diff leave the rows of the index file, the rows seen
\* through the connection, the position counter, config.json and the files as
\* they were; on a handle whose index the call had to load, the counter is the
\* one load reads from the unchanged rows.
ViewsReadOnly ==
    ViewDone =>
        /\ disk.rows = repo.before.rows
        /\ repo.config = repo.before.config
        /\ files = repo.before.files
        /\ last.branch # "unloaded" => position = last.position /\ db = last.rows
        /\ last.branch = "unloaded" /\ idx = "loaded" =>
              position = load(disk).position /\ db = disk.rows

\* diff returned a missing item on a handle that an earlier call had loaded,
\* after an update on that handle.
ViewsReadOnlyWitness ==
    /\ ViewDone
    /\ last.op = "diff"
    /\ repo.result = "returned"
    /\ last.ret # <<>>
    /\ last.branch = "loaded"
    /\ budget < MaxHandleUpdates

\* The running or finished update got past the counter: the tracker is sized.
Sized ==
    /\ repo.op = "update"
    /\ repo.fault = "none"
    /\ repo.pc \in {"draw", "check", "store", "finally", "done"}
    /\ Len(repo.hooks) >= 3

\* C27: once an update has sized the tracker, the tracker holds the URLs that
\* this update drew from the engine and no others, so its entries and its
\* finished and failed counts are those of this update alone.
TrackerResetBySizing ==
    Sized /\ repo.engine.reports =>
        /\ [i \in 1..Len(progress.entries) |-> progress.entries[i].url] = repo.drawn
        /\ total(progress).finished + total(progress).failed <= Len(repo.drawn)

\* An update is in its loop or at its finally block; it has ended and its
\* finally block called Index.commit.
Running == repo.op = "update" /\ repo.pc \in {"draw", "check", "store", "finally"}
CommitRan == repo.op = "update" /\ repo.pc = "done" /\ repo.commit # "none"

\* C28: an update that is running ends with the commit step executed, whether
\* a stop arrives or the updater's sequence runs out, and from the first stop
\* of an update on at most one more element is drawn from the updater.
CancelledUpdateCommits ==
    /\ [](repo.op = "update" /\ repo.stopAt.set =>
             repo.stopAt.left - Len(repo.rest) <= 1)
    /\ (Running ~> CommitRan)

\* The places of the null elements that the loop of the last update drew, the
\* updater being one that yields the engine's whole sequence.
NullsDrawn ==
    {k \in DOMAIN repo.engine.items :
        /\ repo.engine.items[k] = NoneItem
        /\ plan(repo.mode).updater \in {"update_new", "update_all"}
        /\ plan(repo.mode).updater \in Range(repo.hooks)
        /\ Len(repo.rest) <= Len(repo.engine.items) - k}

\* C29: an update that drew a null element, and that no stop and no engine
\* error cut short, returns without raising, and every item the updater yields
\* after the null element is indexed: it was in the index before the update, or
\* this update inserted it and wrote its file.
NullElementSkipped ==
    UpdateDone /\ NullsDrawn # {} /\ ~repo.stop /\ repo.engine.error = "none" =>
        /\ repo.result = "returned"
        /\ \A k \in NullsDrawn : \A j \in (k + 1)..Len(repo.engine.items) :
              repo.engine.items[j] # NoneItem =>
                 /\ Indexed(disk.rows, repo.engine.items[j].url)
                 /\ \/ Indexed(repo.base, repo.engine.items[j].url)
                    \/ /\ repo.engine.items[j].url \in Range(repo.stored)
                       /\ RowOf(disk.rows, repo.engine.items[j].url).storename
                             \in DOMAIN files

\* update returned after a null element between a and b, b stored by it.
NullElementSkippedWitness ==
    /\ UpdateDone
    /\ repo.mode = "update"
    /\ NullsDrawn # {}
    /\ repo.result = "returned"
    /\ "b" \in Range(repo.stored)
    /\ Indexed(disk.rows, "b")

\* C30: after rename(template) returned with a template, config.json holds that
\* template and every index row's storename is the template rendered for the
\* row's item at the row's own position; the items a later update stores get
\* storenames rendered from the same template.
Rendered(r, tpl) == r.storename = build_storename(RowItem(r), r.position, tpl)

RenamePersists ==
    /\ (repo.op = "rename" /\ repo.result = "returned" /\ last.template # <<>>) =>
          /\ repo.config.template = last.template
          /\ \A r \in disk.rows \cup db : Rendered(r, last.template)
    /\ (repo.op = "update" /\ repo.renamed # <<>>) =>
          /\ repo.config.template = repo.renamed
          /\ \A i \in 1..Len(repo.stored) :
                Rendered(RowOf(db, repo.stored[i]), repo.renamed)

RenamePersistsWitness ==
    /\ repo.op = "update"
    /\ repo.result = "returned"
    /\ repo.renamed = FilenameTemplate
    /\ Len(repo.stored) > 0
    /\ \E r \in disk.rows :
          /\ \A i \in 1..Len(repo.stored) : repo.stored[i] # r.url
          /\ r.storename # build_storename(RowItem(r), r.position, DefaultTemplate)
    /\ \A r \in disk.rows : Rendered(r, FilenameTemplate)

\* C31: a rename called while the engine reports the remote as unreachable
\* fails, and leaves the index rows, the files and the template of config.json
\* as they were.
RenameDone == repo.op = "rename" /\ repo.pc = "done" /\ repo.before.exists

RenameRequiresReachable ==
    RenameDone /\ ~repo.reachable =>
        /\ repo.result # "returned"
        /\ disk.rows = repo.before.rows
        /\ files = repo.before.files
        /\ repo.config = repo.before.config

\* C32: the polling loop of run_repo_call is left only once the worker has
\* ended, the call itself ends only once the worker has ended, and the last
\* snapshot read was read after the worker's last call on the tracker.
CallEnded == poll.caller \in {"returned", "RepoStopError"}

PollingOutlivesWorker ==
    /\ poll.caller \in {"final", "join"} \/ CallEnded => poll.worker = "dead"
    /\ CallEnded => poll.seen = poll.muts

\* C33: an update in which stop was not called runs with the cancellation flag
\* clear, whatever happened to earlier updates on the handle, and when it
\* returns every item its updater yields is in the index.
Unstopped == repo.op = "update" /\ ~repo.stopAt.set

FlagClearedPerUpdate ==
    /\ Unstopped /\ repo.pc \in {"draw", "check", "store"} => ~repo.stop
    /\ Unstopped /\ repo.pc = "done" /\ repo.result = "returned"
          /\ repo.engine.error = "none" =>
             AllYieldedIndexed

\* C34: an item this update drew and that was not indexed before it has a row,
\* in the connection or on disk, only with its file written; a store whose
\* payload write failed leaves no row and the counter where it was.
NewlyIndexed(rows) ==
    {r \in rows : r.url \in Range(repo.drawn) /\ ~Indexed(repo.base, r.url)}

StoreAtomicOnWriteFailure ==
    repo.op = "update" /\ repo.pc \in {"draw", "check", "store", "finally", "done"} =>
        /\ \A r \in NewlyIndexed(db) \cup NewlyIndexed(disk.rows) :
              r.storename \in DOMAIN files
        /\ position = IF db = {} THEN 0 ELSE MaxPosition(db)

\* C35: an update entered on a handle finds the index loaded: the Index object
\* that connect created and closed is replaced before any query, and no query
\* fails on a closed database.
UpdateEntered == repo.op = "update" /\ repo.before.exists /\ repo.before.config.present

ClosedIndexNeverQueried ==
    UpdateEntered => idx # "closed" /\ repo.result # "ProgrammingError"

\* C36: after a rename, every row whose file was there before the call has a
\* file at its new storename holding that row's own content, whether or not
\* its old or new storename is also the old or new storename of another row.
RenameLosesNoFile ==
    RenameCall /\ last.raised = "none" =>
        \A r \in last.rows :
            r.storename \in DOMAIN last.files =>
               /\ NewStorename(r) \in DOMAIN files
               /\ files[NewStorename(r)] = last.files[r.storename]

\* C37: a rename on a loaded index without rows raises nothing and leaves the
\* rows and the files as they were.
RenameOnEmpty == last.op = "rename" /\ last.rows = {}

RenameOnEmptyCompletes ==
    RenameOnEmpty => last.raised = "none" /\ db = {} /\ files = last.files

\* C38: the name build_storename returns has, for the keys position, filename
\* and extension, the position passed in and the item's own filename and
\* extension, whatever the item's metadata holds; metadata fills other keys only.
OwnAttribute(item, pos, key) ==
    CASE key = "position" -> ToString(pos)
      [] key = "filename" -> item.filename
      [] key = "extension" -> item.extension
      [] OTHER -> Attribute(item, pos, key)

RECURSIVE RenderOwn(_, _, _)
RenderOwn(tpl, item, pos) ==
    IF tpl = <<>> THEN ""
    ELSE (IF Head(tpl).kind = "lit" THEN Head(tpl).text
          ELSE OwnAttribute(item, pos, Head(tpl).text))
         \o RenderOwn(Tail(tpl), item, pos)

MetadataNeverReplaces ==
    last.op = "build_storename" =>
        last.ret = RenderOwn(last.template, last.item, last.position)

\* C39: no mark is appended to a list that reset has discarded, and no
\* accessor looks up the positions of a discarded list in the entries of the
\* tracker after the reset.
MarksAndReadsAtomic == ~poll.stale_mark /\ ~poll.stale_read

\* C40: when an update is entered on a handle that was constructed with a
\* template on an existing repository and not used since, the handle keeps that
\* template and the index renders the storenames of the update from it.
NewHandleWithTemplate ==
    /\ repo.op = "none" /\ repo.pc = "idle"
    /\ repo.exists /\ repo.config.present
    /\ repo.template # <<>>

ConstructorTemplateUsed ==
    [][NewHandleWithTemplate /\ repo'.op = "update" /\ repo'.pc # "done" =>
          repo'.template = repo.template /\ template' = repo.template]_vars

====
